---- MODULE Spec2Model ----
(***************************************************************************)
(* A model of the OMNICANON core: RiskGovernance (kill switch, position    *)
(* sizing, portfolio constraints), the orchestrator's tick (suspension at  *)
(* the execution phase, portfolio mutation, learning), StrategyPool        *)
(* activation, FractalMemory, the CircularBuffer utility, and phases 1 to  *)
(* 4 of the tick (PerceptionMatrix, MetaController, signal generation)     *)
(* with the ExecutionEngine's order lifecycle.                             *)
(*                                                                         *)
(* Number conventions (JavaScript doubles are modelled in fixed point):    *)
(*   money, prices ................. integers (dollars)                    *)
(*   order and position sizes ...... 1e-3 shares                           *)
(*   limits, confidence, strength .. per mille  (0.15  = 150)              *)
(*   Kelly fractions, correlation .. 1e-4 units (0.25  = 2500)             *)
(*   VaR contribution, risk score .. 1e-6 units (0.02  = 20000)            *)
(* Products are divided with \div (floor), one rounding per source         *)
(* expression.                                                             *)
(***************************************************************************)
EXTENDS Integers, Sequences, FiniteSets, TLC

VARIABLES
  \* RiskGovernance fields
  limits, killSwitchActive, killSwitchReason, dailyPnL, peakEquity,
  \* OmnicanonSystem fields
  portfolio, ticks,
  \* the last operation and what it was given and returned
  op, killBefore, argPortfolio, argSignals, approved, executionResults,
  \* CircularBuffer fields, and the items added since construction or clear()
  capacity, items, head, tail, count, added,
  \* FractalMemory fields, the clock Date.now() reads, the ids generated and
  \* the import calls so far, and the last exportPatterns() with the memory it
  \* was taken from
  patterns, fingerprints, recentPatterns, memIndex, maxPatterns,
  now, generated, imports, exported, snapshot, trip,
  \* OmnicanonSystem: config.learningEnabled, lastState, the rootFunction
  \* calls suspended at the await of the execution phase and the ids of the
  \* calls that resolved; MetaController.regimeHistory and
  \* LearningEngine.tradeOutcomes
  learningEnabled, lastState, inflight, resolved, regimeHistory, tradeOutcomes,
  \* StrategyPool: the activeStrategies map, and the regime, the features and
  \* the coherence given to the last activateStrategies call with the list it
  \* returned
  activeStrategies, activationRegime, returned, activationArgs,
  \* OmnicanonSystem run on raw bundles: config.maxStrategies, the buffers of
  \* the PerceptionMatrix, the buffers and the regime history of the
  \* MetaController, the SystemState of the last tick, the SystemState a
  \* second system built and fed alike resolved with, and the bundles fed so
  \* far (flat ones first, any others after)
  maxStrategies, perception, controller, state, twinState, flatTicks, variedTicks,
  \* ExecutionEngine called directly: the pendingOrders map, the stats, the
  \* execute calls suspended at a latency wait, the batches execute returned,
  \* the ids of the orders cancelOrder or cancelAllPendingOrders cancelled,
  \* and the execute calls so far
  pendingOrders, stats, executions, batches, cancelled, engineCalls,
  \* LearningEngine (tradeOutcomes is listed above): the learningProgress,
  \* strategyEvolutions and featureImportance maps, the calls made after or
  \* instead of the scheduled run of outcomes, and the outcomes of that run
  \* analysed so far
  learningProgress, strategyEvolutions, featureImportance, learningCalls, scheduled,
  \* WebSocketService: ws (0 for null), the readyState of every WebSocket
  \* constructed so far, isConnecting, shouldReconnect, reconnectCount,
  \* reconnectTimer (whether the field holds a timer id), whether that timer
  \* is still to fire, heartbeatTimer (whether an interval is set), and the
  \* socket whose event the last handler was run for (0 for none), and
  \* config.reconnectAttempts
  ws, sockets, isConnecting, shouldReconnect, reconnectCount, reconnectTimer,
  timerPending, heartbeatTimer, fired, reconnectAttempts,
  \* the arguments and the result of the last call of a function or query
  \* that is explored on its own
  callArgs, callResult

rgVars  == <<limits, killSwitchActive, killSwitchReason, dailyPnL, peakEquity>>
sysVars == <<portfolio, ticks>>
obsVars == <<op, killBefore, argPortfolio, argSignals, approved, executionResults>>
cbVars  == <<capacity, items, head, tail, count, added>>
fmVars  == <<patterns, fingerprints, recentPatterns, memIndex, maxPatterns,
             now, generated, imports, exported, snapshot, trip>>
tkVars  == <<learningEnabled, lastState, inflight, resolved, regimeHistory, tradeOutcomes>>
spVars  == <<activeStrategies, activationRegime, returned, activationArgs>>
plVars  == <<maxStrategies, perception, controller, state, twinState, flatTicks,
             variedTicks>>
eeVars  == <<pendingOrders, stats, executions, batches, cancelled, engineCalls>>
leVars  == <<learningProgress, strategyEvolutions, featureImportance, learningCalls,
             scheduled>>
wsVars  == <<ws, sockets, isConnecting, shouldReconnect, reconnectCount, reconnectTimer,
             timerPending, heartbeatTimer, fired, reconnectAttempts>>
fnVars  == <<callArgs, callResult>>
vars    == <<rgVars, sysVars, obsVars, cbVars, fmVars, tkVars, spVars, plVars, eeVars,
             leVars, wsVars, fnVars>>

----------------------------------------------------------------------------
(* Bounds of the model *)

\* longest signal list handed to one filterSignals call
MaxSignals == 2
\* rootFunction calls explored by the orchestrator specification
MaxTicks == 5
\* largest CircularBuffer capacity explored
MaxCapacity == 3
\* items added to a CircularBuffer between two clear() calls
MaxAdds == 5
\* largest FractalMemory capacity explored
MaxMemoryCapacity == 2
\* storePattern and importPatterns calls explored on one FractalMemory
MaxMemoryCalls == 4
\* rootFunction calls suspended at the same time
MaxInFlight == 2
\* rootFunction calls explored when the calls can be suspended
MaxCalls == 2
\* flat bundles fed to a system before any other bundle
MaxFlatTicks == 10
\* bundles fed to a system after the flat ones
MaxVariedTicks == 2
\* execute calls explored on one ExecutionEngine
MaxEngineCalls == 2
\* calls on a LearningEngine after or instead of the scheduled run
MaxLearningCalls == 2
\* storePattern and importPatterns calls on a FractalMemory that is queried
MaxSimilarCalls == 3
\* WebSocket objects one WebSocketService constructs
MaxSockets == 3

----------------------------------------------------------------------------
(* Helpers standing for Math.min, Math.max, Math.abs and Array.reduce *)

Min2(a, b) == IF a <= b THEN a ELSE b
Max2(a, b) == IF a >= b THEN a ELSE b
Abs(a) == IF a < 0 THEN 0 - a ELSE a

\* the doubles NaN and -Infinity, as integers no other quantity takes;
\* NegInfinity compares below every number, NaN is tested for before a
\* comparison or a Math.min / Math.max
NaN == -2000000001
NegInfinity == -2000000000

\* utils/math clamp: Math.min(Math.max(value, min), max), NaN for a NaN value
clamp(value, lo, hi) == IF value = NaN THEN NaN ELSE Min2(Max2(value, lo), hi)

\* the sum of s[lo..hi], taken by halves
RECURSIVE SumRange(_, _, _)
SumRange(s, lo, hi) ==
  IF lo > hi THEN 0
  ELSE IF lo = hi THEN s[lo]
  ELSE SumRange(s, lo, (lo + hi) \div 2) + SumRange(s, (lo + hi) \div 2 + 1, hi)

SumSeq(s) == SumRange(s, 1, Len(s))

\* String.prototype.includes, at the granularity of words: a reason is the
\* sequence of the words of the message, the pattern a sequence of words.
Includes(reason, pattern) ==
  \E i \in 0..(Len(reason) - Len(pattern)) :
    SubSeq(reason, i + 1, i + Len(pattern)) = pattern

----------------------------------------------------------------------------
(* RiskGovernance *)

\* constructor: the default limits, per mille
DefaultLimits ==
  [maxPositionSize |-> 100, maxPortfolioRisk |-> 20, maxCorrelation |-> 700,
   maxDrawdown |-> 150, maxDailyLoss |-> 50, maxConcentration |-> 300]

\* the messages updateRiskState passes to activateKillSwitch (the formatted
\* number at the end of each message is left out)
DrawdownReason  == <<"Max", "drawdown", "exceeded">>
DailyLossReason == <<"Max", "daily", "loss", "exceeded">>

\* the private fields of a RiskGovernance, as one record
rgState ==
  [killSwitchActive |-> killSwitchActive, killSwitchReason |-> killSwitchReason,
   dailyPnL |-> dailyPnL, peakEquity |-> peakEquity]

activateKillSwitch(rg, reason) ==
  [rg EXCEPT !.killSwitchActive = TRUE, !.killSwitchReason = reason]

deactivateKillSwitch(rg) ==
  [rg EXCEPT !.killSwitchActive = FALSE, !.killSwitchReason = <<>>]

\* (peakEquity - totalValue) / peakEquity > maxDrawdown, with the double
\* arithmetic of a zero peak: x/0 is +Infinity for x > 0 and NaN for x = 0
drawdownExceeded(peak, totalValue, lim) ==
  IF peak > 0 THEN (peak - totalValue) * 1000 > lim.maxDrawdown * peak
  ELSE peak - totalValue > 0

\* the daily-loss test taken against maxDrawdown instead of maxDailyLoss
dailyLossExceededByDrawdownLimit(pnl, totalValue, lim) ==
  pnl * 1000 < 0 - (lim.maxDrawdown * totalValue)

\* this.dailyPnL < -this.limits.maxDailyLoss * portfolio.totalValue
dailyLossExceeded(pnl, totalValue, lim) ==
  pnl * 1000 < 0 - (lim.maxDailyLoss * totalValue)

updateRiskState(rg, lim, pf) ==
  LET r1 == IF pf.totalValue > rg.peakEquity
            THEN [rg EXCEPT !.peakEquity = pf.totalValue] ELSE rg
      r2 == IF drawdownExceeded(r1.peakEquity, pf.totalValue, lim)
            THEN activateKillSwitch(r1, DrawdownReason) ELSE r1
      r3 == [r2 EXCEPT !.dailyPnL = pf.dailyPnL]
  IN  IF dailyLossExceeded(r3.dailyPnL, pf.totalValue, lim)
      THEN activateKillSwitch(r3, DailyLossReason) ELSE r3

\* size * currentPrice in dollars (sizes are kept in 1e-3 shares)
notional(shares, price) == (shares * price) \div 1000

\* |size * currentPrice| / totalValue > maxConcentration, for any sign of
\* totalValue (a zero totalValue gives Infinity or NaN)
concentrationExceeded(p, totalValue, lim) ==
  LET n == Abs(notional(p.size, p.currentPrice))
  IN  IF totalValue > 0 THEN n * 1000 > lim.maxConcentration * totalValue
      ELSE IF totalValue = 0 THEN n > 0
      ELSE n * 1000 < lim.maxConcentration * totalValue

checkGlobalRiskLimits(lim, pf) ==
  /\ ~(pf.marginAvailable * 10 < pf.totalValue)
  /\ \A i \in 1..Len(pf.positions) :
       ~concentrationExceeded(pf.positions[i], pf.totalValue, lim)

\* utils/math kellyCriterion; winRate per mille, avgWin and avgLoss in 1e-4,
\* result in 1e-4.  winRate - (1 - winRate) / (avgWin / avgLoss): a NaN avgWin
\* gives NaN, a zero avgWin divides by zero (0/0 when winRate is 1).
kellyCriterion(winRate, avgWin, avgLoss) ==
  IF avgLoss = 0 THEN 0
  ELSE IF avgWin = NaN THEN NaN
  ELSE IF avgWin = 0 THEN (IF winRate = 1000 THEN NaN ELSE NegInfinity)
  ELSE winRate * 10 - ((1000 - winRate) * avgLoss * 10) \div avgWin

\* percent
getVolatilityMultiplier(features) ==
  CASE features.regime = "low" -> 120
    [] features.regime = "normal" -> 100
    [] features.regime = "elevated" -> 80
    [] features.regime = "high" -> 50
    [] features.regime = "extreme" -> 25
    [] OTHER -> 100

\* signal.targets[0] of an empty targets array is undefined, and avgWin NaN;
\* a NaN kellyFraction makes every later product and Math.min NaN
calculatePositionSize(signal, pf, features, lim) ==
  LET avgWin  == IF Len(signal.targets) = 0 THEN NaN
                 ELSE (Abs(signal.targets[1] - signal.entryPrice) * 10000)
                        \div signal.entryPrice
      avgLoss == (Abs(signal.entryPrice - signal.stopLoss) * 10000) \div signal.entryPrice
      kellyFraction == clamp(kellyCriterion(signal.confidence, avgWin, avgLoss), 0, 2500)
      halfKelly == kellyFraction \div 2
      volMultiplier == getVolatilityMultiplier(features)
      baseSize == (((pf.totalValue * halfKelly) \div 10000) * volMultiplier) \div 100
      maxSize == (pf.totalValue * lim.maxPositionSize) \div 1000
      marginConstrained == Min2(baseSize, pf.marginAvailable * 2)
  IN  IF kellyFraction = NaN THEN NaN
      ELSE Min2(Min2(baseSize, maxSize), marginConstrained)

\* correlation in 1e-4
calculateCorrelationRisk(signal, pf) ==
  IF Len(pf.positions) = 0 THEN 0
  ELSE LET same == SelectSeq(pf.positions,
                     LAMBDA p : \/ (p.side = "long" /\ signal.direction = "long")
                                \/ (p.side = "short" /\ signal.direction = "short"))
           totalSameDirection ==
             SumSeq([i \in 1..Len(same) |->
                      Abs(notional(same[i].size, same[i].currentPrice))])
       IN  (totalSameDirection * 10000) \div pf.totalValue

calculateRiskMetrics(signal, pf) ==
  [correlation |-> calculateCorrelationRisk(signal, pf),
   gammaExposure |-> signal.gammaLevel \div 100,
   varContribution |->
     (Abs(signal.entryPrice - signal.stopLoss) * signal.confidence * 1000)
       \div signal.entryPrice,
   maxLoss |-> (Abs(signal.entryPrice - signal.stopLoss) * 10000) \div signal.entryPrice,
   marginRequired |-> signal.entryPrice \div 2]

determineExecutionConstraints(signal, features) ==
  LET urgency == IF signal.strength > 800 /\ features.regime # "extreme" THEN "high"
                 ELSE IF signal.strength > 500 THEN "medium"
                 ELSE "low"
  IN  [urgency |-> urgency,
       orderType |-> IF urgency = "high" THEN "market" ELSE "limit",
       timeInForce |-> IF urgency = "high" THEN "ioc" ELSE "day"]

\* risk score in 1e-6
calculateRiskScore(riskMetrics, features) ==
  LET volScore == IF features.regime = "extreme" THEN 1000
                  ELSE IF features.regime = "high" THEN 700
                  ELSE IF features.regime = "elevated" THEN 400
                  ELSE 200
  IN  clamp(riskMetrics.correlation * 30
              + Abs(riskMetrics.gammaExposure) * 200
              + (riskMetrics.varContribution * 3) \div 10
              + volScore * 200,
            0, 1000000)

\* Array.prototype.sort with (a, b) => a.riskScore - b.riskScore: stable
RECURSIVE InsertByScore(_, _)
InsertByScore(s, x) ==
  IF s = <<>> THEN <<x>>
  ELSE IF x.riskScore < Head(s).riskScore THEN <<x>> \o s
  ELSE <<Head(s)>> \o InsertByScore(Tail(s), x)

RECURSIVE SortByScore(_)
SortByScore(s) ==
  IF s = <<>> THEN <<>>
  ELSE InsertByScore(SortByScore(SubSeq(s, 1, Len(s) - 1)), s[Len(s)])

\* the greedy loop of applyPortfolioConstraints over the sorted signals
RECURSIVE AcceptWhileFits(_, _, _, _, _)
AcceptWhileFits(sorted, totalRisk, totalMargin, lim, pf) ==
  IF sorted = <<>> THEN <<>>
  ELSE LET signal == Head(sorted)
           newTotalRisk == totalRisk + signal.riskMetrics.varContribution
           newMargin == totalMargin + signal.riskMetrics.marginRequired
       IN  IF newTotalRisk > lim.maxPortfolioRisk * 1000
           THEN AcceptWhileFits(Tail(sorted), totalRisk, totalMargin, lim, pf)
           ELSE IF newMargin > pf.marginAvailable + pf.marginUsed
           THEN AcceptWhileFits(Tail(sorted), totalRisk, totalMargin, lim, pf)
           ELSE <<signal>> \o AcceptWhileFits(Tail(sorted), newTotalRisk, newMargin, lim, pf)

applyPortfolioConstraints(signals, lim, pf) ==
  IF Len(signals) = 0 THEN <<>>
  ELSE AcceptWhileFits(SortByScore(signals), 0, pf.marginUsed, lim, pf)

\* positionSize <= 0, false for NaN
sizeNotPositive(positionSize) == positionSize # NaN /\ positionSize <= 0

\* the per-signal checks without the correlation check
passesSignalChecksNoCorrelation(signal, pf, features, lim) ==
  LET riskMetrics == calculateRiskMetrics(signal, pf)
  IN  /\ ~sizeNotPositive(calculatePositionSize(signal, pf, features, lim))
      /\ ~(Abs(riskMetrics.gammaExposure) * 100 > pf.totalValue)

\* the per-signal checks of the loop in filterSignals
passesSignalChecks(signal, pf, features, lim) ==
  LET riskMetrics == calculateRiskMetrics(signal, pf)
  IN  /\ ~sizeNotPositive(calculatePositionSize(signal, pf, features, lim))
      /\ ~(riskMetrics.correlation > lim.maxCorrelation * 10)
      /\ ~(Abs(riskMetrics.gammaExposure) * 100 > pf.totalValue)

approveSignal(signal, pf, features, lim) ==
  LET riskMetrics == calculateRiskMetrics(signal, pf)
  IN  [originalSignal |-> signal,
       approvedSize |-> calculatePositionSize(signal, pf, features, lim),
       riskMetrics |-> riskMetrics,
       executionConstraints |-> determineExecutionConstraints(signal, features),
       riskScore |-> calculateRiskScore(riskMetrics, features)]

\* filterSignals entered without the kill-switch test of its first statement
filterSignalsUngated(rg, lim, signals, pf, features) ==
  LET rg2 == updateRiskState(rg, lim, pf)
  IN  IF ~checkGlobalRiskLimits(lim, pf) THEN [rg |-> rg2, result |-> <<>>]
      ELSE LET kept == SelectSeq(signals,
                         LAMBDA s : passesSignalChecks(s, pf, features, lim))
               candidates == [i \in 1..Len(kept) |->
                                approveSignal(kept[i], pf, features, lim)]
           IN  [rg |-> rg2,
                result |-> applyPortfolioConstraints(candidates, lim, pf)]

\* filterSignals: the governance state it leaves and the list it returns
filterSignals(rg, lim, signals, pf, features) ==
  IF rg.killSwitchActive THEN [rg |-> rg, result |-> <<>>]
  ELSE LET rg2 == updateRiskState(rg, lim, pf)
       IN  IF ~checkGlobalRiskLimits(lim, pf) THEN [rg |-> rg2, result |-> <<>>]
           ELSE LET kept == SelectSeq(signals,
                              LAMBDA s : passesSignalChecks(s, pf, features, lim))
                    candidates == [i \in 1..Len(kept) |->
                                     approveSignal(kept[i], pf, features, lim)]
                IN  [rg |-> rg2,
                     result |-> applyPortfolioConstraints(candidates, lim, pf)]

\* resetDailyRisk clearing the kill switch whatever its reason
resetDailyRiskAnyReason(rg) == deactivateKillSwitch([rg EXCEPT !.dailyPnL = 0])

resetDailyRisk(rg) ==
  LET r1 == [rg EXCEPT !.dailyPnL = 0]
  IN  IF Includes(r1.killSwitchReason, <<"daily", "loss">>)
      THEN deactivateKillSwitch(r1) ELSE r1

updateLimits(lim, newLimits) ==
  [k \in DOMAIN lim |-> IF k \in DOMAIN newLimits THEN newLimits[k] ELSE lim[k]]

----------------------------------------------------------------------------
(* ExecutionEngine (simulation) *)

createOrder(signal) ==
  [signalId |-> signal.originalSignal.id,
   side |-> IF signal.originalSignal.direction = "long" THEN "buy" ELSE "sell",
   type |-> signal.executionConstraints.orderType,
   size |-> (signal.approvedSize * 1000) \div signal.originalSignal.entryPrice,
   price |-> signal.originalSignal.entryPrice,
   status |-> "pending", filledSize |-> 0, avgFillPrice |-> 0, fees |-> 0]

\* fill rate per mille; randomFactor is Math.random() per mille
simulateFillRate(order, signal, randomFactor) ==
  IF order.type = "market" THEN 1000
  ELSE IF signal.executionConstraints.urgency = "high"
       THEN (IF randomFactor > 100 THEN 1000 ELSE 800)
  ELSE IF signal.executionConstraints.urgency = "medium"
       THEN (IF randomFactor > 200 THEN 1000 ELSE IF randomFactor > 400 THEN 700 ELSE 0)
  ELSE (IF randomFactor > 400 THEN 1000 ELSE IF randomFactor > 600 THEN 500 ELSE 0)

\* actualSlippage (1e-4) stands for predictedSlippage * (0.5 + Math.random())
simulateExecution(order, signal, randomFactor, actualSlippage) ==
  LET fillRate == simulateFillRate(order, signal, randomFactor)
      slippageDirection == IF order.side = "buy" THEN 1 ELSE 0 - 1
      fillPrice == (order.price * (10000 + slippageDirection * actualSlippage)) \div 10000
  IN  IF fillRate = 0 THEN [order EXCEPT !.status = "cancelled"]
      ELSE [order EXCEPT !.status = IF fillRate = 1000 THEN "filled" ELSE "partial",
                         !.filledSize = (order.size * fillRate) \div 1000,
                         !.avgFillPrice = fillPrice,
                         !.fees = notional(order.size, fillPrice) \div 10000]

executeSignal(signal, randomFactor, actualSlippage) ==
  LET executedOrder ==
        simulateExecution(createOrder(signal), signal, randomFactor, actualSlippage)
  IN  [order |-> executedOrder, success |-> executedOrder.status = "filled"]

\* execute: one result per approved signal, in order
execute(approvedSignals, randomFactors, actualSlippage) ==
  [i \in 1..Len(approvedSignals) |->
     executeSignal(approvedSignals[i], randomFactors[i], actualSlippage)]

\* updateStats: the counters after one result
updateStats(st, result) ==
  LET counted == [st EXCEPT !.totalOrders = @ + 1]
  IN  IF result.order.status = "filled" THEN [counted EXCEPT !.filledOrders = @ + 1]
      ELSE IF result.order.status = "cancelled"
           THEN [counted EXCEPT !.cancelledOrders = @ + 1]
      ELSE IF result.order.status = "rejected"
           THEN [counted EXCEPT !.rejectedOrders = @ + 1]
      ELSE counted

\* the order executeSignal creates and puts into pendingOrders; id stands for
\* the uuid createOrder draws
orderOf(signal, id) == [id |-> id] @@ createOrder(signal)

\* executeSignal reporting success for every order that filled in part
resultOfAnyFill(order, signal, randomFactor, actualSlippage) ==
  LET executedOrder == simulateExecution(order, signal, randomFactor, actualSlippage)
  IN  [order |-> executedOrder, success |-> executedOrder.filledSize > 0]

\* the result executeSignal returns when the latency wait of order is over
\* (its try branch: the simulation does not throw)
resultOf(order, signal, randomFactor, actualSlippage) ==
  LET executedOrder == simulateExecution(order, signal, randomFactor, actualSlippage)
  IN  [order |-> executedOrder, success |-> executedOrder.status = "filled"]

\* the test cancelOrder and cancelAllPendingOrders make before cancelling
cancellable(order) == order.status = "pending" \/ order.status = "submitted"

----------------------------------------------------------------------------
(* OmnicanonSystem *)

initializePortfolio ==
  [positions |-> <<>>, totalValue |-> 100000, cashBalance |-> 100000,
   marginUsed |-> 0, marginAvailable |-> 50000, dailyPnL |-> 0]

\* the loop body of updatePortfolio for one successful result
applyFill(pf, result) ==
  LET order == result.order
      positionValue == notional(order.filledSize, order.avgFillPrice)
  IN  [pf EXCEPT
         !.cashBalance = @ - (positionValue + order.fees),
         !.marginUsed = @ + positionValue \div 2,
         !.marginAvailable = @ - positionValue \div 2,
         !.positions = Append(@,
            [side |-> IF order.side = "buy" THEN "long" ELSE "short",
             size |-> order.filledSize,
             entryPrice |-> order.avgFillPrice,
             currentPrice |-> order.avgFillPrice,
             strategyId |-> order.signalId])]

\* the loop of updatePortfolio without its test of result.success
RECURSIVE applyFillsEveryResult(_, _)
applyFillsEveryResult(pf, results) ==
  IF results = <<>> THEN pf
  ELSE applyFillsEveryResult(applyFill(pf, Head(results)), Tail(results))

RECURSIVE applyFills(_, _)
applyFills(pf, results) ==
  IF results = <<>> THEN pf
  ELSE applyFills(IF Head(results).success THEN applyFill(pf, Head(results)) ELSE pf,
                  Tail(results))

\* updatePortfolio leaving totalValue as the tick found it
updatePortfolioKeepingTotal(pf, results) ==
  [applyFills(pf, results) EXCEPT !.totalValue = pf.totalValue]

updatePortfolio(pf, results) ==
  LET p1 == applyFills(pf, results)
      positionValue ==
        SumSeq([i \in 1..Len(p1.positions) |->
                  notional(p1.positions[i].size, p1.positions[i].currentPrice)])
  IN  [p1 EXCEPT !.totalValue = p1.cashBalance + positionValue]

----------------------------------------------------------------------------
(* CircularBuffer *)

\* an empty slot of new Array(capacity), and the result of get() out of range
Undefined == -1

cbState == [capacity |-> capacity, items |-> items, head |-> head, tail |-> tail,
            count |-> count]

newCircularBuffer(cap) ==
  [capacity |-> cap, items |-> [i \in 0..(cap - 1) |-> Undefined],
   head |-> 0, tail |-> 0, count |-> 0]

\* add leaving head where it is when the buffer is full
addKeepingHead(b, item) ==
  LET b1 == [b EXCEPT !.items[b.tail] = item, !.tail = (b.tail + 1) % b.capacity]
  IN  IF b1.count < b1.capacity THEN [b1 EXCEPT !.count = @ + 1] ELSE b1

\* add counting every item, also when the buffer is full
addAlwaysCounting(b, item) ==
  LET b1 == [b EXCEPT !.items[b.tail] = item, !.tail = (b.tail + 1) % b.capacity]
  IN  IF b1.count < b1.capacity THEN [b1 EXCEPT !.count = @ + 1]
      ELSE [b1 EXCEPT !.count = @ + 1, !.head = (b1.head + 1) % b1.capacity]

add(b, item) ==
  LET b1 == [b EXCEPT !.items[b.tail] = item, !.tail = (b.tail + 1) % b.capacity]
  IN  IF b1.count < b1.capacity THEN [b1 EXCEPT !.count = @ + 1]
      ELSE [b1 EXCEPT !.head = (b1.head + 1) % b1.capacity]

getRecent(b, n) ==
  LET actualN == Min2(n, b.count)
  IN  [k \in 1..actualN |-> b.items[(b.tail - 1 - (k - 1) + b.capacity) % b.capacity]]

getOldest(b, n) ==
  LET actualN == Min2(n, b.count)
  IN  [k \in 1..actualN |-> b.items[(b.head + (k - 1)) % b.capacity]]

get(b, index) ==
  IF index < 0 \/ index >= b.count THEN Undefined
  ELSE b.items[(b.head + index) % b.capacity]

toArray(b) == [k \in 1..b.count |-> b.items[(b.head + (k - 1)) % b.capacity]]

clear(b) ==
  [b EXCEPT !.items = [i \in 0..(b.capacity - 1) |-> Undefined],
            !.head = 0, !.tail = 0, !.count = 0]

size(b) == b.count

----------------------------------------------------------------------------
(* FractalMemory *)

\* A Map is the sequence of its entries in insertion order.  The index maps
\* have entries [key, ids]; the pattern and fingerprint maps are keyed by id.
MapHas(m, k) == \E i \in 1..Len(m) : m[i].key = k

\* map.get(k) ?? []
MapGet(m, k) ==
  IF MapHas(m, k) THEN m[CHOOSE i \in 1..Len(m) : m[i].key = k].ids ELSE <<>>

MapSet(m, k, v) ==
  IF MapHas(m, k)
  THEN [i \in 1..Len(m) |-> IF m[i].key = k THEN [key |-> k, ids |-> v] ELSE m[i]]
  ELSE Append(m, [key |-> k, ids |-> v])

HasId(m, id) == \E i \in 1..Len(m) : m[i].id = id

GetById(m, id) == m[CHOOSE i \in 1..Len(m) : m[i].id = id]

\* map.set(id, e): an existing key keeps its place
SetById(m, e) ==
  IF HasId(m, e.id)
  THEN [i \in 1..Len(m) |-> IF m[i].id = e.id THEN e ELSE m[i]]
  ELSE Append(m, e)

DeleteById(m, id) == SelectSeq(m, LAMBDA e : e.id # id)

\* indexOf and splice(idx, 1): the first occurrence is removed
RemoveFirst(ids, id) ==
  IF \A i \in 1..Len(ids) : ids[i] # id THEN ids
  ELSE LET idx == CHOOSE i \in 1..Len(ids) :
                    ids[i] = id /\ \A j \in 1..(i - 1) : ids[j] # id
       IN  SubSeq(ids, 1, idx - 1) \o SubSeq(ids, idx + 1, Len(ids))

\* capacity of the recentPatterns buffer
RecentCapacity == 1000

\* recentPatterns.add: the buffer is kept as its toArray()
addRecent(recent, id) ==
  IF Len(recent) < RecentCapacity THEN Append(recent, id)
  ELSE Append(Tail(recent), id)

\* the index of a constructed or cleared memory
emptyIndex ==
  [byRegime |-> <<>>,
   byOutcome |-> <<[key |-> "positive", ids |-> <<>>], [key |-> "negative", ids |-> <<>>]>>,
   byTimeframe |-> <<>>]

newFractalMemory(cap) ==
  [patterns |-> <<>>, fingerprints |-> <<>>, recentPatterns |-> <<>>,
   index |-> emptyIndex, maxPatterns |-> cap]

fmState ==
  [patterns |-> patterns, fingerprints |-> fingerprints,
   recentPatterns |-> recentPatterns, index |-> memIndex, maxPatterns |-> maxPatterns]

outcomeType(pattern) == IF pattern.outcome.pnl >= 0 THEN "positive" ELSE "negative"

updateIndices(fm, patternId, pattern, fingerprint) ==
  LET timeframe == fingerprint.timestamp \div 3600000
  IN  [fm EXCEPT
         !.index.byRegime =
            MapSet(@, fingerprint.regime, Append(MapGet(@, fingerprint.regime), patternId)),
         !.index.byOutcome =
            MapSet(@, outcomeType(pattern), Append(MapGet(@, outcomeType(pattern)), patternId)),
         !.index.byTimeframe =
            MapSet(@, timeframe, Append(MapGet(@, timeframe), patternId))]

removePattern(fm, patternId) ==
  IF ~HasId(fm.patterns, patternId) \/ ~HasId(fm.fingerprints, patternId) THEN fm
  ELSE LET pattern == GetById(fm.patterns, patternId)
           fingerprint == GetById(fm.fingerprints, patternId)
       IN  [fm EXCEPT
              !.patterns = DeleteById(@, patternId),
              !.fingerprints = DeleteById(@, patternId),
              !.index.byRegime =
                 IF MapHas(@, fingerprint.regime)
                 THEN MapSet(@, fingerprint.regime,
                             RemoveFirst(MapGet(@, fingerprint.regime), patternId))
                 ELSE @,
              !.index.byOutcome =
                 IF MapHas(@, outcomeType(pattern))
                 THEN MapSet(@, outcomeType(pattern),
                             RemoveFirst(MapGet(@, outcomeType(pattern)), patternId))
                 ELSE @]

\* Array.prototype.sort with (a, b) => a.timestamp - b.timestamp: stable
RECURSIVE InsertByTimestamp(_, _)
InsertByTimestamp(s, x) ==
  IF s = <<>> THEN <<x>>
  ELSE IF x.timestamp < Head(s).timestamp THEN <<x>> \o s
  ELSE <<Head(s)>> \o InsertByTimestamp(Tail(s), x)

RECURSIVE SortByTimestamp(_)
SortByTimestamp(s) ==
  IF s = <<>> THEN <<>>
  ELSE InsertByTimestamp(SortByTimestamp(SubSeq(s, 1, Len(s) - 1)), s[Len(s)])

RECURSIVE removeAll(_, _)
removeAll(fm, toRemove) ==
  IF toRemove = <<>> THEN fm
  ELSE removeAll(removePattern(fm, Head(toRemove).id), Tail(toRemove))

cleanup(fm) ==
  LET sortedPatterns == SortByTimestamp(fm.patterns)
      toRemove == SubSeq(sortedPatterns, 1, Len(fm.patterns) - fm.maxPatterns)
  IN  removeAll(fm, toRemove)

\* the normalized feature vector is kept as the features it was built from
createFingerprint(features, regime, timestamp) ==
  [features |-> features, timestamp |-> timestamp, regime |-> regime.type]

\* storePattern; patternId is the generated id, fingerprintTime and
\* patternTime the values of the two Date.now() calls, in the order made
storePattern(fm, patternId, features, outcome, regime, fingerprintTime, patternTime) ==
  LET fingerprint == createFingerprint(features, regime, fingerprintTime)
      pattern == [id |-> patternId, timestamp |-> patternTime,
                  structuralFingerprint |-> fingerprint.features,
                  outcome |-> outcome, regime |-> regime, similarity |-> 1]
      fm1 == [fm EXCEPT
                !.patterns = SetById(@, pattern),
                !.fingerprints = SetById(@, [id |-> patternId] @@ fingerprint),
                !.recentPatterns = addRecent(@, patternId)]
      fm2 == updateIndices(fm1, patternId, pattern, fingerprint)
  IN  IF Len(fm2.patterns) > fm2.maxPatterns THEN cleanup(fm2) ELSE fm2

exportPatterns(fm) == fm.patterns

RECURSIVE importPatterns(_, _)
importPatterns(fm, list) ==
  IF list = <<>> THEN fm
  ELSE LET pattern == Head(list)
           fingerprint == [features |-> pattern.structuralFingerprint,
                           timestamp |-> pattern.timestamp,
                           regime |-> pattern.regime.type]
           fm1 == [fm EXCEPT
                     !.patterns = SetById(@, pattern),
                     !.fingerprints = SetById(@, [id |-> pattern.id] @@ fingerprint)]
       IN  importPatterns(updateIndices(fm1, pattern.id, pattern, fingerprint), Tail(list))

clearMemory(fm) ==
  [fm EXCEPT !.patterns = <<>>, !.fingerprints = <<>>, !.recentPatterns = <<>>,
             !.index = emptyIndex]

----------------------------------------------------------------------------
(* OmnicanonSystem: regime classification and learning *)

\* capacity of the memory an OmnicanonSystem constructs
DefaultMaxPatterns == 10000

\* MetaController.classifyRegime: the regime found in the features, and the
\* entry every call adds to regimeHistory
classifyRegime(history, structuralFeatures) ==
  [regime |-> [type |-> structuralFeatures.market],
   regimeHistory |-> Append(history, structuralFeatures.market)]

\* LearningEngine.analyzeOutcome: the exit price is the latest price of the
\* features, which is the price the order was created at
analyzeOutcome(result) ==
  LET order == result.order
      exitPrice == order.price
  IN  [signalId |-> order.signalId,
       pnl |-> IF order.side = "buy"
               THEN ((exitPrice - order.avgFillPrice) * order.filledSize) \div 1000
               ELSE ((order.avgFillPrice - exitPrice) * order.filledSize) \div 1000]

\* what learnFromOutcome works on
learnState ==
  [fm |-> fmState, generated |-> generated, tradeOutcomes |-> tradeOutcomes,
   regimeHistory |-> regimeHistory]

\* learnFromOutcome analysing and storing every result, filled or not
RECURSIVE learnFromEveryResult(_, _, _, _, _)
learnFromEveryResult(l, results, features, last, time) ==
  IF results = <<>> THEN l
  ELSE LET outcome == analyzeOutcome(Head(results))
           c == classifyRegime(l.regimeHistory, features)
           regime == IF last # <<>> THEN last[1].regime ELSE c.regime
       IN  learnFromEveryResult(
             [l EXCEPT
                !.tradeOutcomes = Append(@, outcome),
                !.regimeHistory = IF last # <<>> THEN @ ELSE c.regimeHistory,
                !.fm = storePattern(@, l.generated + 1, features, outcome, regime,
                                    time, time),
                !.generated = @ + 1],
             Tail(results), features, last, time)

\* learnFromOutcome: last is this.lastState, <<>> for null; time is what
\* Date.now() reads
RECURSIVE learnFromOutcome(_, _, _, _, _)
learnFromOutcome(l, results, features, last, time) ==
  IF results = <<>> THEN l
  ELSE IF ~Head(results).success
  THEN learnFromOutcome(l, Tail(results), features, last, time)
  ELSE LET outcome == analyzeOutcome(Head(results))
           c == classifyRegime(l.regimeHistory, features)
           regime == IF last # <<>> THEN last[1].regime ELSE c.regime
       IN  learnFromOutcome(
             [l EXCEPT
                !.tradeOutcomes = Append(@, outcome),
                !.regimeHistory = IF last # <<>> THEN @ ELSE c.regimeHistory,
                !.fm = storePattern(@, l.generated + 1, features, outcome, regime,
                                    time, time),
                !.generated = @ + 1],
             Tail(results), features, last, time)

\* the for loop of execute: the signals left once one has been executed
signalsLeftKeepingFirst(pending) == pending

signalsLeft(pending) == Tail(pending)

----------------------------------------------------------------------------
(* StrategyPool *)

\* five of the ten default templates; the activation threshold is per mille
Template(id, validRegimes, activationThreshold) ==
  [id |-> id, validRegimes |-> validRegimes, activationThreshold |-> activationThreshold]

templates ==
  << Template("gamma_scalp_v1", {"range_bound", "low_volatility", "consolidation"}, 600),
     Template("momentum_follow_v1",
              {"trending_bullish", "trending_bearish", "breakout", "breakdown"}, 650),
     Template("mean_reversion_v1", {"mean_reversion", "range_bound", "high_volatility"}, 700),
     Template("volatility_contraction_v1", {"low_volatility", "consolidation"}, 600),
     Template("flow_alignment_v1",
              {"trending_bullish", "trending_bearish", "gamma_squeeze"}, 650) >>

\* the score of the strategy-specific conditions per template (per mille)
StrategyScores(gammaScalp, momentumFollow, meanReversion, volatilityContraction, flowAlignment) ==
  [id \in {templates[i].id : i \in 1..Len(templates)} |->
     CASE id = "gamma_scalp_v1" -> gammaScalp
       [] id = "momentum_follow_v1" -> momentumFollow
       [] id = "mean_reversion_v1" -> meanReversion
       [] id = "volatility_contraction_v1" -> volatilityContraction
       [] id = "flow_alignment_v1" -> flowAlignment]

\* calculateActivationScore (per mille); structuralFeatures gives the score of
\* the strategy-specific conditions of each template, and no performance has
\* been recorded (recentPerformance is 0)
calculateActivationScore(template, structuralFeatures, regime, coherence) ==
  IF coherence.total = NaN \/ regime.confidence = NaN THEN NaN
  ELSE clamp((regime.confidence * 300) \div 1000 + (coherence.total * 200) \div 1000
               + structuralFeatures[template.id] + 0,
             0, 1000)

\* Array.prototype.sort with (a, b) => b.activationScore - a.activationScore
RECURSIVE InsertByActivation(_, _)
InsertByActivation(s, x) ==
  IF s = <<>> THEN <<x>>
  ELSE IF x.activationScore > Head(s).activationScore THEN <<x>> \o s
  ELSE <<Head(s)>> \o InsertByActivation(Tail(s), x)

RECURSIVE SortByActivation(_)
SortByActivation(s) ==
  IF s = <<>> THEN <<>>
  ELSE InsertByActivation(SortByActivation(SubSeq(s, 1, Len(s) - 1)), s[Len(s)])

\* the loop of activateStrategies over templates i..Len(templates): acc holds
\* the activeStrategies map and the list active
RECURSIVE activateFrom(_, _, _, _, _)
activateFrom(i, acc, structuralFeatures, regime, coherence) ==
  IF i > Len(templates) THEN acc
  ELSE LET template == templates[i]
           activationScore ==
             calculateActivationScore(template, structuralFeatures, regime, coherence)
           activeStrategy ==
             [id |-> template.id, template |-> template,
              activationScore |-> activationScore, regime |-> regime.type]
       IN  IF regime.type \notin template.validRegimes
              \/ activationScore < template.activationThreshold
           THEN activateFrom(i + 1, acc, structuralFeatures, regime, coherence)
           ELSE activateFrom(i + 1,
                  [activeStrategies |-> SetById(acc.activeStrategies, activeStrategy),
                   active |-> Append(acc.active, activeStrategy)],
                  structuralFeatures, regime, coherence)

\* Array.prototype.slice(0, end): a negative end counts from the end of the
\* array, NaN is taken as 0
slice(s, end) ==
  IF end = NaN THEN <<>>
  ELSE IF end < 0 THEN SubSeq(s, 1, Max2(Len(s) + end, 0))
  ELSE SubSeq(s, 1, Min2(end, Len(s)))

\* Math.min(10, Math.floor(coherence.confidence * 20)), confidence per mille
maxActive(coherence) ==
  IF coherence.confidence = NaN THEN NaN
  ELSE Min2(10, (coherence.confidence * 20) \div 1000)

\* activateStrategies returning the first maxActive strategies in template
\* order, without sorting them by activation score
activateStrategiesUnsorted(map, structuralFeatures, regime, coherence) ==
  LET acc == activateFrom(1, [activeStrategies |-> map, active |-> <<>>],
                          structuralFeatures, regime, coherence)
  IN  [activeStrategies |-> acc.activeStrategies,
       returned |-> slice(acc.active, maxActive(coherence))]

\* activateStrategies: the map it leaves and the list it returns
activateStrategies(map, structuralFeatures, regime, coherence) ==
  LET acc == activateFrom(1, [activeStrategies |-> map, active |-> <<>>],
                          structuralFeatures, regime, coherence)
      sorted == SortByActivation(acc.active)
  IN  [activeStrategies |-> acc.activeStrategies,
       returned |-> slice(sorted, maxActive(coherence))]

getActiveStrategies(map) == map

----------------------------------------------------------------------------
(* Doubles that are not finite, and the utilities of utils/math             *)
(*                                                                         *)
(* Units of the perception and coherence quantities:                       *)
(*   prices of bars, strikes ....... integers (dollars)                    *)
(*   moving averages ............... 1e-4 dollars                          *)
(*   log returns, momentum ......... 1e-4 units                            *)
(*   volatilities in percent ....... 1e-2 percent (20% = 2000); the same   *)
(*                                   integer is the fraction in 1e-4 units *)
(*   trend strength, magnitudes,                                           *)
(*   imbalance, coherence scores ... per mille                             *)
(*   gamma exposure ................ gamma in 1e-2, exposure in units of 1 *)

Infinity == 2000000000

Finite(x) == x \notin {NaN, Infinity, NegInfinity}

\* a < b and a > b of doubles: false when either side is NaN
lt(a, b) == a # NaN /\ b # NaN /\ a < b
gt(a, b) == a # NaN /\ b # NaN /\ a > b

\* a - b of doubles
minus(a, b) ==
  IF a = NaN \/ b = NaN THEN NaN
  ELSE IF a = Infinity THEN (IF b = Infinity THEN NaN ELSE Infinity)
  ELSE IF a = NegInfinity THEN (IF b = NegInfinity THEN NaN ELSE NegInfinity)
  ELSE IF b = Infinity THEN NegInfinity
  ELSE IF b = NegInfinity THEN Infinity
  ELSE a - b

\* Math.sqrt, rounded down
RECURSIVE SqrtBetween(_, _, _)
SqrtBetween(n, lo, hi) ==
  IF lo >= hi THEN lo
  ELSE LET mid == (lo + hi + 1) \div 2
       IN  IF mid * mid <= n THEN SqrtBetween(n, mid, hi)
           ELSE SqrtBetween(n, lo, mid - 1)

sqrt(n) == IF n = NaN \/ n < 0 THEN NaN ELSE SqrtBetween(n, 0, 46340)

\* utils/math mean
mean(arr) ==
  IF arr = <<>> THEN 0
  ELSE IF \E i \in 1..Len(arr) : ~Finite(arr[i]) THEN NaN
  ELSE SumSeq(arr) \div Len(arr)

\* utils/math standardDeviation; an element that is not finite leaves
\* x - mean NaN for some x, so the result is NaN
standardDeviation(arr) ==
  IF arr = <<>> THEN 0
  ELSE IF \E i \in 1..Len(arr) : ~Finite(arr[i]) THEN NaN
  ELSE LET m == SumSeq(arr) \div Len(arr)
           squareDiffs == [i \in 1..Len(arr) |-> (arr[i] - m) * (arr[i] - m)]
       IN  sqrt(SumSeq(squareDiffs) \div Len(arr))

\* utils/math ema, its last element (1e-4 dollars) for prices in dollars
RECURSIVE emaLast(_, _)
emaLast(arr, period) ==
  IF Len(arr) = 1 THEN arr[1] * 10000
  ELSE LET previous == emaLast(SubSeq(arr, 1, Len(arr) - 1), period)
       IN  ((arr[Len(arr)] * 10000 - previous) * 2) \div (period + 1) + previous

\* utils/math cosineSimilarity (per mille) of vectors in 1e-4 units
cosineSimilarity(a, b) ==
  IF Len(a) # Len(b) THEN 0
  ELSE IF \E i \in 1..Len(a) : a[i] = NaN \/ b[i] = NaN THEN NaN
  ELSE LET dotProduct == SumSeq([i \in 1..Len(a) |-> a[i] * b[i]])
           normA == SumSeq([i \in 1..Len(a) |-> a[i] * a[i]])
           normB == SumSeq([i \in 1..Len(a) |-> b[i] * b[i]])
           denominator == sqrt(normA) * sqrt(normB)
       IN  IF denominator = 0 THEN 0
           ELSE IF Abs(dotProduct) < 2000000 THEN (dotProduct * 1000) \div denominator
           ELSE ((dotProduct \div 1000) * 1000) \div (denominator \div 1000)

\* utils/math sigmoid, 1 / (1 + exp(-x)), per mille for x per mille in
\* [-1, 1]: 1/2 + tanh(x/2)/2 with tanh(y) taken as y(15 + y^2)/(15 + 6y^2)
sigmoid(x) ==
  IF x = NaN THEN NaN
  ELSE LET y == x \div 2
           ratio == (((15000000 + y * y) \div 1000) * 10000)
                      \div ((15000000 + 6 * y * y) \div 1000)
       IN  500 + ((y * ratio) \div 10000) \div 2

\* Math.log(a / b) in 1e-4 units for prices a and b: division by zero gives
\* an infinite quotient, 0 / 0 gives NaN; otherwise 2(a - b)/(a + b), the
\* first term of the series of the logarithm
logReturn(a, b) ==
  IF a = 0 /\ b = 0 THEN NaN
  ELSE IF b = 0 THEN Infinity
  ELSE IF a = 0 THEN NegInfinity
  ELSE (20000 * (a - b)) \div (a + b)

\* the elements of a set of numbers in ascending order ([...new Set(..)].sort)
RECURSIVE SortedSeq(_)
SortedSeq(S) ==
  IF S = {} THEN <<>>
  ELSE LET least == CHOOSE x \in S : \A y \in S : x <= y
       IN  <<least>> \o SortedSeq(S \ {least})

----------------------------------------------------------------------------
(* PerceptionMatrix *)

\* calculateGammaSurface: the gamma of every option weighted by its open
\* interest, per expiry (row) and strike (column)
calculateGammaSurface(optionsChain, spotPrice) ==
  LET strikes == SortedSeq({optionsChain[i].strike : i \in 1..Len(optionsChain)})
      expiries == SortedSeq({optionsChain[i].expiry : i \in 1..Len(optionsChain)})
      totalGamma(e, k) ==
        SumSeq([i \in 1..Len(optionsChain) |->
                  IF optionsChain[i].strike = strikes[k]
                       /\ optionsChain[i].expiry = expiries[e]
                  THEN (optionsChain[i].gamma * optionsChain[i].openInterest * 100) \div 100
                  ELSE 0])
      values == [e \in 1..Len(expiries) |-> [k \in 1..Len(strikes) |-> totalGamma(e, k)]]
      cells == { values[e][k] : e \in 1..Len(expiries), k \in 1..Len(strikes) }
  IN  [strikes |-> strikes, expiries |-> expiries, values |-> values,
       \* let maxGamma = -Infinity, raised by every cell above it
       maxGamma |-> IF cells = {} THEN NegInfinity
                    ELSE CHOOSE x \in cells : \A y \in cells : x >= y,
       \* let minGamma = Infinity, lowered by every cell below it
       minGamma |-> IF cells = {} THEN Infinity
                    ELSE CHOOSE x \in cells : \A y \in cells : x <= y,
       netGamma |-> SumSeq([e \in 1..Len(expiries) |-> SumSeq(values[e])])]

\* findGammaFlips: the sign changes between neighbouring strikes of a row,
\* strongest first
RECURSIVE InsertByStrength(_, _)
InsertByStrength(s, x) ==
  IF s = <<>> THEN <<x>>
  ELSE IF x.strength > Head(s).strength THEN <<x>> \o s
  ELSE <<Head(s)>> \o InsertByStrength(Tail(s), x)

RECURSIVE flipsFrom(_, _, _)
flipsFrom(gammaSurface, e, k) ==
  IF e > Len(gammaSurface.expiries) THEN <<>>
  ELSE IF k > Len(gammaSurface.strikes) THEN flipsFrom(gammaSurface, e + 1, 2)
  ELSE LET prevGamma == gammaSurface.values[e][k - 1]
           currGamma == gammaSurface.values[e][k]
           rest == flipsFrom(gammaSurface, e, k + 1)
       IN  IF prevGamma * currGamma < 0
           THEN InsertByStrength(rest,
                  [price |-> (gammaSurface.strikes[k - 1] + gammaSurface.strikes[k]) \div 2,
                   strength |-> Abs(currGamma - prevGamma),
                   type |-> IF prevGamma > 0 THEN "positive_to_negative"
                            ELSE "negative_to_positive",
                   expiry |-> gammaSurface.expiries[e]])
           ELSE rest

findGammaFlips(gammaSurface) == flipsFrom(gammaSurface, 1, 2)

\* calculateGravitationalPull: the cells above a tenth of the gamma range
\* attract the price by strength / distance^2 (pull in 1e-2 units); the
\* attractors are pushed row by row, strike by strike, and the first ten are
\* returned
calculateGravitationalPull(gammaSurface, spotPrice) ==
  LET cells == { <<e, k>> : e \in 1..Len(gammaSurface.expiries),
                            k \in 1..Len(gammaSurface.strikes) }
      attractors ==
        { c \in cells :
            Abs(gammaSurface.values[c[1]][c[2]]) * 10
              > Abs(gammaSurface.maxGamma - gammaSurface.minGamma) }
      distance(c) == gammaSurface.strikes[c[2]] - spotPrice
      pull(c) == (gammaSurface.values[c[1]][c[2]] * 100) \div (distance(c) * distance(c))
      pulling == SortedSeq({ (c[1] * 1000 + c[2]) : c \in { a \in attractors : distance(a) # 0 } })
      cellOf(n) == <<n \div 1000, n % 1000>>
      totalPull == SumSeq([i \in 1..Len(pulling) |-> Abs(pull(cellOf(pulling[i])))])
      weightedSum ==
        SumSeq([i \in 1..Len(pulling) |->
                  pull(cellOf(pulling[i]))
                    * (IF distance(cellOf(pulling[i])) > 0 THEN 1 ELSE 0 - 1)])
      scale == totalPull \div 1000000 + 1
      pushed == SortedSeq({ (c[1] * 1000 + c[2]) : c \in attractors })
      found == [i \in 1..Len(pushed) |->
                  [price |-> gammaSurface.strikes[cellOf(pushed[i])[2]],
                   strength |-> gammaSurface.values[cellOf(pushed[i])[1]][cellOf(pushed[i])[2]],
                   type |-> "gamma_max"]]
  IN  [direction |-> IF weightedSum > 0 THEN 1 ELSE IF weightedSum < 0 THEN 0 - 1 ELSE 0,
       magnitude |->
         Min2(((Abs(weightedSum) \div scale) * 1000)
                \div (IF totalPull = 0 THEN 100 ELSE Max2(totalPull \div scale, 1)),
              1000),
       attractors |-> slice(found, 10)]

\* buildLiquidityMap: the levels of the book with the trades near them, the
\* imbalance of the book, its depth within 1% of the mid price and the
\* traded volume relative to the book
buildLiquidityMap(orderBook, trades) ==
  LET flowRate(level) ==
        SumSeq([i \in 1..Len(trades) |->
                  IF Abs(trades[i].price - level.price) * 1000 < level.price
                  THEN trades[i].size ELSE 0])
      levelOf(level, side) ==
        [price |-> level.price, volume |-> level.size, side |-> side,
         flowRate |-> flowRate(level), persistence |-> 1]
      bidVolume == SumSeq([i \in 1..Len(orderBook.bids) |-> orderBook.bids[i].size])
      askVolume == SumSeq([i \in 1..Len(orderBook.asks) |-> orderBook.asks[i].size])
      totalVolume == bidVolume + askVolume
      midPrice == orderBook.midPrice
      recentVolume == SumSeq([i \in 1..Len(trades) |-> trades[i].size])
  IN  [levels |-> [i \in 1..Len(orderBook.bids) |-> levelOf(orderBook.bids[i], "bid")]
                    \o [i \in 1..Len(orderBook.asks) |-> levelOf(orderBook.asks[i], "ask")],
       imbalance |-> IF totalVolume > 0
                     THEN ((bidVolume - askVolume) * 1000) \div totalVolume ELSE 0,
       depth |->
         SumSeq([i \in 1..Len(orderBook.bids) |->
                   IF (midPrice - orderBook.bids[i].price) * 100 <= midPrice
                   THEN orderBook.bids[i].size ELSE 0])
         + SumSeq([i \in 1..Len(orderBook.asks) |->
                     IF (orderBook.asks[i].price - midPrice) * 100 <= midPrice
                     THEN orderBook.asks[i].size ELSE 0]),
       absorptionRate |-> IF totalVolume > 0
                          THEN (recentVolume * 1000) \div totalVolume ELSE 0]

\* classifyVolatilityRegime: historical volatility of the closes, implied
\* volatility of the chain (the historical one without quoted options), and
\* the label; volatilityBuffer is the buffer before the call
classifyVolatilityRegime(volatilityBuffer, ohlcv, optionsChain) ==
  LET returns == [i \in 1..(Len(ohlcv) - 1) |-> logReturn(ohlcv[i + 1].close, ohlcv[i].close)]
      deviation == standardDeviation(returns)
      \* standardDeviation(returns) * Math.sqrt(252) * 100
      historicalVol == IF deviation = NaN THEN NaN ELSE (deviation * 158745) \div 10000
      buffer == Append(volatilityBuffer, historicalVol)
      quoted(o) == o.impliedVolatility > 0
      ivs == [i \in 1..Len(SelectSeq(optionsChain, quoted)) |->
                SelectSeq(optionsChain, quoted)[i].impliedVolatility]
      impliedVol == IF Len(ivs) > 0 THEN mean(ivs) ELSE historicalVol
      atm(o) == Abs(o.delta) > 400 /\ Abs(o.delta) < 600
      otmPut(o) == o.type = "put" /\ Abs(o.delta) < 250
      ivOf(s) == [i \in 1..Len(s) |-> s[i].impliedVolatility]
      atmIV == IF Len(SelectSeq(optionsChain, atm)) > 0
               THEN mean(ivOf(SelectSeq(optionsChain, atm))) ELSE impliedVol
      otmPutIV == IF Len(SelectSeq(optionsChain, otmPut)) > 0
                  THEN mean(ivOf(SelectSeq(optionsChain, otmPut))) ELSE atmIV
      \* Math.min(...[]) is Infinity
      nearExpiry == IF optionsChain = <<>> THEN Infinity
                    ELSE CHOOSE x \in {optionsChain[i].expiry : i \in 1..Len(optionsChain)} :
                           \A i \in 1..Len(optionsChain) : x <= optionsChain[i].expiry
      near(o) == o.expiry = nearExpiry
      far(o) == o.expiry # nearExpiry
      nearIV == IF Len(SelectSeq(optionsChain, near)) > 0
                THEN mean(ivOf(SelectSeq(optionsChain, near))) ELSE impliedVol
      farIV == IF Len(SelectSeq(optionsChain, far)) > 0
               THEN mean(ivOf(SelectSeq(optionsChain, far))) ELSE nearIV
  IN  [volatilityBuffer |-> buffer,
       state |->
         [regime |-> IF lt(impliedVol, 1500) THEN "low"
                     ELSE IF lt(impliedVol, 2500) THEN "normal"
                     ELSE IF lt(impliedVol, 3500) THEN "elevated"
                     ELSE IF lt(impliedVol, 5000) THEN "high"
                     ELSE "extreme",
          historicalVol |-> historicalVol,
          impliedVol |-> impliedVol,
          volSpread |-> minus(impliedVol, historicalVol),
          volOfVol |-> standardDeviation(buffer),
          skew |-> minus(otmPutIV, atmIV),
          term |-> minus(farIV, nearIV)]]

\* inferDealerPositioning (hedgingPressure in 1e-2 units, putCallRatio and
\* confidence per mille)
inferDealerPositioning(optionsChain, gammaSurface) ==
  LET callVolume == SumSeq([i \in 1..Len(optionsChain) |->
                              IF optionsChain[i].type = "call"
                              THEN optionsChain[i].volume ELSE 0])
      putVolume == SumSeq([i \in 1..Len(optionsChain) |->
                             IF optionsChain[i].type = "put"
                             THEN optionsChain[i].volume ELSE 0])
      putCallRatio == IF callVolume > 0 THEN (putVolume * 1000) \div callVolume ELSE 1000
      totalOI == SumSeq([i \in 1..Len(optionsChain) |-> optionsChain[i].openInterest])
  IN  [netGammaExposure |-> gammaSurface.netGamma,
       netDeltaExposure |->
         0 - SumSeq([i \in 1..Len(optionsChain) |->
                       (optionsChain[i].delta * optionsChain[i].openInterest) \div 10]),
       hedgingPressure |-> 0 - gammaSurface.netGamma,
       flowDirection |-> IF putCallRatio < 700 THEN "buying"
                         ELSE IF putCallRatio > 1300 THEN "selling" ELSE "neutral",
       confidence |-> clamp(totalOI \div 100, 0, 1000)]

\* buildPriceHistory over the price buffer (momentum in 1e-4 units)
buildPriceHistory(prices) ==
  IF Len(prices) < 2
  THEN [prices |-> prices, momentum |-> 0, trend |-> "sideways", trendStrength |-> 0]
  ELSE LET latestShort == emaLast(prices, 10)
           latestLong == emaLast(prices, 30)
           \* (latestShort - latestLong) / latestLong, both sides of the
           \* quotient scaled down by 100 to stay within 32 bits
           momentum == IF latestLong # 0
                       THEN ((latestShort - latestLong) * 100)
                              \div Max2(latestLong \div 100, 1)
                       ELSE 0
           high == CHOOSE x \in {prices[i] : i \in 1..Len(prices)} :
                     \A i \in 1..Len(prices) : x >= prices[i]
           low == CHOOSE x \in {prices[i] : i \in 1..Len(prices)} :
                    \A i \in 1..Len(prices) : x <= prices[i]
           range == high - low
           latestPrice == prices[Len(prices)]
       IN  [prices |-> prices,
            momentum |-> momentum,
            trend |-> IF momentum > 50 THEN "up"
                      ELSE IF momentum < 0 - 50 THEN "down" ELSE "sideways",
            trendStrength |->
              IF range > 0 THEN (Abs(2 * latestPrice - (high + low)) * 1000) \div range
              ELSE 0]

\* PerceptionMatrix.process: the buffers it leaves and the features it
\* returns; pm holds the price buffer and the volatility buffer
process(pm, rawData) ==
  LET latestPrice == IF rawData.ohlcv = <<>> THEN 0
                     ELSE rawData.ohlcv[Len(rawData.ohlcv)].close
      priceBuffer == Append(pm.priceBuffer, latestPrice)
      gammaSurface == calculateGammaSurface(rawData.chain, rawData.underlyingPrice)
      volatility == classifyVolatilityRegime(pm.volatilityBuffer, rawData.ohlcv, rawData.chain)
  IN  [pm |-> [priceBuffer |-> priceBuffer, volatilityBuffer |-> volatility.volatilityBuffer],
       structuralFeatures |->
         [gammaSurface |-> gammaSurface,
          gammaFlips |-> findGammaFlips(gammaSurface),
          gammaPull |-> calculateGravitationalPull(gammaSurface, rawData.underlyingPrice),
          liquidityMap |-> buildLiquidityMap(rawData.orderBook, rawData.trades),
          volatilityRegime |-> volatility.state,
          dealerPositioning |-> inferDealerPositioning(rawData.chain, gammaSurface),
          priceHistory |-> buildPriceHistory(priceBuffer)]]

----------------------------------------------------------------------------
(* MetaController: regime classification and coherence *)

\* extractRegimeFeatures
extractRegimeFeatures(structuralFeatures) ==
  [momentum |-> structuralFeatures.priceHistory.momentum,
   trendStrength |-> structuralFeatures.priceHistory.trendStrength,
   volatility |-> structuralFeatures.volatilityRegime.impliedVol,
   volOfVol |-> structuralFeatures.volatilityRegime.volOfVol,
   volSpread |-> structuralFeatures.volatilityRegime.volSpread,
   skew |-> structuralFeatures.volatilityRegime.skew,
   gammaDirection |-> structuralFeatures.gammaPull.direction,
   gammaMagnitude |-> structuralFeatures.gammaPull.magnitude,
   liquidityImbalance |-> structuralFeatures.liquidityMap.imbalance,
   absorptionRate |-> structuralFeatures.liquidityMap.absorptionRate]

\* Object.values(features): the ten features in one unit (1e-4)
featureVector(features) ==
  LET scaled(x, factor) == IF x = NaN THEN NaN ELSE x * factor
  IN  << features.momentum, scaled(features.trendStrength, 10), features.volatility,
         scaled(features.volOfVol, 100), features.volSpread, features.skew,
         scaled(features.gammaDirection, 10000), scaled(features.gammaMagnitude, 10),
         scaled(features.liquidityImbalance, 10), scaled(features.absorptionRate, 10) >>

\* the cascade of determineRegimeType without its low_volatility rule
determineRegimeTypeWithoutLowVolatility(features, structuralFeatures) ==
  LET momentum == features.momentum
      trendStrength == features.trendStrength
      volatility == features.volatility
      volExpanding == gt(features.volOfVol, 30)
  IN  IF gt(volatility, 4000) THEN "high_volatility"
      ELSE IF features.gammaMagnitude > 700
                /\ Abs(structuralFeatures.gammaSurface.netGamma) > 1000000
           THEN "gamma_squeeze"
      ELSE IF momentum > 200 /\ trendStrength > 600 THEN "trending_bullish"
      ELSE IF momentum < 0 - 200 /\ trendStrength > 600 THEN "trending_bearish"
      ELSE IF volExpanding /\ momentum > 100 THEN "breakout"
      ELSE IF volExpanding /\ momentum < 0 - 100 THEN "breakdown"
      ELSE IF Abs(momentum) < 50 /\ gt(volatility, 2000) THEN "mean_reversion"
      ELSE IF trendStrength < 300 /\ Abs(momentum) < 100 THEN "range_bound"
      ELSE IF lt(volatility, 2000) /\ trendStrength < 400 THEN "consolidation"
      ELSE "range_bound"

\* the cascade of determineRegimeType with its range_bound rule tried before
\* its mean_reversion rule
determineRegimeTypeRangeFirst(features, structuralFeatures) ==
  LET momentum == features.momentum
      trendStrength == features.trendStrength
      volatility == features.volatility
      volExpanding == gt(features.volOfVol, 30)
  IN  IF gt(volatility, 4000) THEN "high_volatility"
      ELSE IF lt(volatility, 1500) THEN "low_volatility"
      ELSE IF features.gammaMagnitude > 700
                /\ Abs(structuralFeatures.gammaSurface.netGamma) > 1000000
           THEN "gamma_squeeze"
      ELSE IF momentum > 200 /\ trendStrength > 600 THEN "trending_bullish"
      ELSE IF momentum < 0 - 200 /\ trendStrength > 600 THEN "trending_bearish"
      ELSE IF volExpanding /\ momentum > 100 THEN "breakout"
      ELSE IF volExpanding /\ momentum < 0 - 100 THEN "breakdown"
      ELSE IF trendStrength < 300 /\ Abs(momentum) < 100 THEN "range_bound"
      ELSE IF Abs(momentum) < 50 /\ gt(volatility, 2000) THEN "mean_reversion"
      ELSE IF lt(volatility, 2000) /\ trendStrength < 400 THEN "consolidation"
      ELSE "range_bound"

\* determineRegimeType: the first rule of the cascade that matches
determineRegimeType(features, structuralFeatures) ==
  LET momentum == features.momentum
      trendStrength == features.trendStrength
      volatility == features.volatility
      volExpanding == gt(features.volOfVol, 30)
  IN  IF gt(volatility, 4000) THEN "high_volatility"
      ELSE IF lt(volatility, 1500) THEN "low_volatility"
      ELSE IF features.gammaMagnitude > 700
                /\ Abs(structuralFeatures.gammaSurface.netGamma) > 1000000
           THEN "gamma_squeeze"
      ELSE IF momentum > 200 /\ trendStrength > 600 THEN "trending_bullish"
      ELSE IF momentum < 0 - 200 /\ trendStrength > 600 THEN "trending_bearish"
      ELSE IF volExpanding /\ momentum > 100 THEN "breakout"
      ELSE IF volExpanding /\ momentum < 0 - 100 THEN "breakdown"
      ELSE IF Abs(momentum) < 50 /\ gt(volatility, 2000) THEN "mean_reversion"
      ELSE IF trendStrength < 300 /\ Abs(momentum) < 100 THEN "range_bound"
      ELSE IF lt(volatility, 2000) /\ trendStrength < 400 THEN "consolidation"
      ELSE "range_bound"

\* calculateRegimeConfidence (per mille)
calculateRegimeConfidence(features, regimeType) ==
  clamp(CASE regimeType = "trending_bullish" ->
               500 + (300 * clamp(features.momentum, 0, 1000)) \div 1000
                   + (200 * features.trendStrength) \div 1000
          [] regimeType = "trending_bearish" ->
               500 + (300 * clamp(0 - features.momentum, 0, 1000)) \div 1000
                   + (200 * features.trendStrength) \div 1000
          [] regimeType = "high_volatility" ->
               500 + clamp((features.volatility - 3000) \div 10, 0, 1000) \div 2
          [] regimeType = "low_volatility" ->
               500 + clamp((2000 - features.volatility) \div 10, 0, 1000) \div 2
          [] regimeType = "gamma_squeeze" -> 500 + features.gammaMagnitude \div 2
          [] regimeType = "range_bound" ->
               500 + (300 * (1000 - features.trendStrength)) \div 1000
                   + (200 * (1000 - 2 * Abs(features.momentum))) \div 1000
          [] OTHER -> 500,
        0, 1000)

\* calculateRegimeDuration: the entries at the end of the history that have
\* the type
RECURSIVE calculateRegimeDuration(_, _)
calculateRegimeDuration(history, regimeType) ==
  IF history = <<>> \/ history[Len(history)].type # regimeType THEN 0
  ELSE 1 + calculateRegimeDuration(SubSeq(history, 1, Len(history) - 1), regimeType)

\* calculateTransitionProbability (per mille)
calculateTransitionProbability(history, currentRegime, features) ==
  IF Len(history) < 10 THEN 100
  ELSE LET same == { i \in 2..Len(history) : history[i].type = currentRegime }
           transitions == { i \in same : history[i - 1].type # currentRegime }
           baseProb == IF Cardinality(same) > 0
                       THEN (Cardinality(transitions) * 1000) \div Cardinality(same)
                       ELSE 100
       IN  IF features.volOfVol = NaN THEN NaN
           ELSE clamp(baseProb + features.volOfVol * 5, 0, 900)

\* determineMarketPhase
determineMarketPhase(features) ==
  IF features.momentum > 100 /\ features.trendStrength > 500 THEN "markup"
  ELSE IF features.momentum < 0 - 100 /\ features.trendStrength > 500 THEN "markdown"
  ELSE IF features.liquidityImbalance > 200 /\ Abs(features.momentum) < 100
       THEN "accumulation"
  ELSE IF features.liquidityImbalance < 0 - 200 /\ Abs(features.momentum) < 100
       THEN "distribution"
  ELSE IF features.momentum >= 0 THEN "accumulation" ELSE "distribution"

\* MetaController.classifyRegime over the perceived features: mc holds the
\* momentum and volatility feature buffers and the regime history with the
\* feature vector of every entry
classifyPerceived(mc, structuralFeatures) ==
  LET features == extractRegimeFeatures(structuralFeatures)
      regimeType == determineRegimeType(features, structuralFeatures)
      regime ==
        [type |-> regimeType,
         confidence |-> calculateRegimeConfidence(features, regimeType),
         duration |-> calculateRegimeDuration(mc.history, regimeType),
         transitionProbability |->
           calculateTransitionProbability(mc.history, regimeType, features),
         characteristics |->
           [volatility |-> structuralFeatures.volatilityRegime.regime,
            trend |-> structuralFeatures.priceHistory.trend,
            momentum |-> structuralFeatures.priceHistory.momentum,
            marketPhase |-> determineMarketPhase(features)]]
  IN  [regime |-> regime,
       mc |-> [momentum |-> Append(mc.momentum, features.momentum),
               volatility |-> Append(mc.volatility, features.volatility),
               history |-> Append(mc.history,
                                  [type |-> regimeType, features |-> featureVector(features)])]]

\* calculateStructuralConsistency: four checks worth 1, or 1/2 where the
\* code grants half a point for a failed check
calculateStructuralConsistency(structuralFeatures) ==
  LET gammaPull == structuralFeatures.gammaPull
      priceHistory == structuralFeatures.priceHistory
      dealerPositioning == structuralFeatures.dealerPositioning
      gammaTrendAlign ==
        \/ gammaPull.direction > 0 /\ priceHistory.trend = "up"
        \/ gammaPull.direction < 0 /\ priceHistory.trend = "down"
        \/ gammaPull.direction = 0 /\ priceHistory.trend = "sideways"
      liquidityMomentumAlign ==
        \/ structuralFeatures.liquidityMap.imbalance > 0 /\ priceHistory.momentum > 0
        \/ structuralFeatures.liquidityMap.imbalance < 0 /\ priceHistory.momentum < 0
      dealerFlowAlign ==
        \/ dealerPositioning.flowDirection = "buying" /\ priceHistory.trend = "up"
        \/ dealerPositioning.flowDirection = "selling" /\ priceHistory.trend = "down"
        \/ dealerPositioning.flowDirection = "neutral"
      hedgingVolAlign ==
        (Abs(dealerPositioning.hedgingPressure) > 50)
          = (structuralFeatures.volatilityRegime.regime # "low")
      halves == (IF gammaTrendAlign THEN 2 ELSE 0)
                  + (IF liquidityMomentumAlign THEN 2 ELSE 1)
                  + (IF dealerFlowAlign THEN 2 ELSE 0)
                  + (IF hedgingVolAlign THEN 2 ELSE 1)
  IN  (halves * 1000) \div 8

\* calculateRegimeAlignment
calculateRegimeAlignment(regime, strategies) ==
  IF Len(strategies) = 0 THEN 500
  ELSE (Cardinality({ i \in 1..Len(strategies) :
                        regime.type \in strategies[i].template.validRegimes }) * 1000)
         \div Len(strategies)

\* Array.prototype.slice(-n)
lastN(s, n) == SubSeq(s, Max2(Len(s) - n, 0) + 1, Len(s))

\* calculateTemporalConsistency over the feature buffers
calculateTemporalConsistency(mc) ==
  IF Len(mc.momentum) < 5 THEN 500
  ELSE LET momentumStd == standardDeviation(lastN(mc.momentum, 20))
           volStd == standardDeviation(lastN(mc.volatility, 20))
           \* 1 - clamp(momentumStd * 10, 0, 1)
           momentumConsistency ==
             IF momentumStd = NaN THEN NaN ELSE 1000 - clamp(momentumStd, 0, 1000)
           \* 1 - clamp(volStd * 5, 0, 1)
           volConsistency ==
             IF volStd = NaN THEN NaN ELSE 1000 - clamp(volStd \div 2, 0, 1000)
       IN  IF momentumConsistency = NaN \/ volConsistency = NaN THEN NaN
           ELSE (momentumConsistency + volConsistency) \div 2

\* calculateFractalSimilarity: the largest similarity of the current feature
\* vector to one of the last 50 entries of the history, at least 0
RECURSIVE maxSimilarityOver(_, _, _)
maxSimilarityOver(recent, currentFeatures, maxSimilarity) ==
  IF recent = <<>> THEN maxSimilarity
  ELSE LET similarity == cosineSimilarity(currentFeatures, Head(recent).features)
       IN  maxSimilarityOver(Tail(recent), currentFeatures,
                             IF gt(similarity, maxSimilarity) THEN similarity
                             ELSE maxSimilarity)

calculateFractalSimilarity(mc, structuralFeatures) ==
  IF Len(mc.history) < 10 THEN 500
  ELSE maxSimilarityOver(lastN(mc.history, 50),
                         featureVector(extractRegimeFeatures(structuralFeatures)), 0)

\* calculateSignalConvergence over the signals of the strategies
calculateSignalConvergence(signals, strategies) ==
  IF Len(strategies) < 2 \/ Len(signals) < 2 THEN 500
  ELSE LET countOf(direction) ==
             Cardinality({ i \in 1..Len(signals) : signals[i].direction = direction })
           maxCount == Max2(countOf("long"), Max2(countOf("short"), countOf("neutral")))
       IN  (maxCount * 1000) \div Len(signals)

\* calculateCoherence: the five scores, their weighted total and the
\* confidence, per mille; signals are the current signals of the strategies
calculateCoherence(mc, structuralFeatures, regime, strategies, signals) ==
  LET structural == calculateStructuralConsistency(structuralFeatures)
      regimeAlignment == calculateRegimeAlignment(regime, strategies)
      temporal == calculateTemporalConsistency(mc)
      fractal == calculateFractalSimilarity(mc, structuralFeatures)
      convergence == calculateSignalConvergence(signals, strategies)
      total == IF temporal = NaN \/ fractal = NaN THEN NaN
               ELSE (300 * structural + 250 * regimeAlignment + 200 * temporal
                       + 150 * fractal + 100 * convergence) \div 1000
  IN  [total |-> total,
       confidence |-> IF total = NaN THEN NaN ELSE sigmoid(total * 2 - 1000),
       structural |-> structural, regime |-> regimeAlignment, temporal |-> temporal,
       fractal |-> fractal, convergence |-> convergence]

----------------------------------------------------------------------------
(* StrategyPool over perceived features *)

\* the strategy-specific scores of calculateActivationScore (per mille):
\* scoreGammaScalp, scoreMomentumFollow, scoreMeanReversion,
\* scoreVolatilityContraction and scoreFlowAlignment
latestPriceOf(structuralFeatures) ==
  IF structuralFeatures.priceHistory.prices = <<>> THEN 0
  ELSE structuralFeatures.priceHistory.prices[Len(structuralFeatures.priceHistory.prices)]

scoreGammaScalp(features) ==
  (IF features.gammaPull.magnitude > 300 THEN 300 ELSE 0)
    + (IF latestPriceOf(features) # 0
          /\ \E i \in 1..Len(features.gammaFlips) :
               Abs(features.gammaFlips[i].price - latestPriceOf(features)) * 100
                 < latestPriceOf(features)
       THEN 200 ELSE 0)

scoreMomentumFollow(features) ==
  (IF Abs(features.priceHistory.momentum) > 150 THEN 250 ELSE 0)
    + (IF features.priceHistory.trendStrength > 500 THEN 250 ELSE 0)

scoreMeanReversion(features) ==
  (IF gt(features.volatilityRegime.impliedVol, 2500)
        /\ Abs(features.priceHistory.momentum) < 100 THEN 300 ELSE 0)
    + (IF features.priceHistory.trendStrength > 600 THEN 200 ELSE 0)

scoreVolatilityContraction(features) ==
  (IF lt(features.volatilityRegime.impliedVol, 2000) THEN 300 ELSE 0)
    + (IF lt(features.volatilityRegime.volSpread, 0) THEN 200 ELSE 0)

scoreFlowAlignment(features) ==
  (IF Abs(features.dealerPositioning.hedgingPressure) > 40 THEN 250 ELSE 0)
    + (IF Abs(features.gammaSurface.netGamma) > 500000 THEN 250 ELSE 0)

strategyScores(features) ==
  StrategyScores(scoreGammaScalp(features), scoreMomentumFollow(features),
                 scoreMeanReversion(features), scoreVolatilityContraction(features),
                 scoreFlowAlignment(features))

\* the multiplier of adaptParameters taken from the position-size multipliers
\* of RiskGovernance.getVolatilityMultiplier (1.2, 1.0, 0.8, 0.5, 0.25), in
\* tenths as far as tenths can hold it
volMultiplierOfPositionSize(regime) ==
  CASE regime.characteristics.volatility = "low" -> 12
    [] regime.characteristics.volatility = "normal" -> 10
    [] regime.characteristics.volatility = "elevated" -> 8
    [] regime.characteristics.volatility = "high" -> 5
    [] OTHER -> 2

\* adaptParameters: the multiplier (in tenths) of stopLoss, trailingStop and
\* targetProfit
volMultiplier(regime) ==
  IF regime.characteristics.volatility \in {"high", "extreme"} THEN 15
  ELSE IF regime.characteristics.volatility = "low" THEN 7
  ELSE 10

\* adaptParameters: a copy of the template's parameters (fractions in 1e-5
\* units, 0 for a parameter the template does not have) with stopLoss,
\* trailingStop and targetProfit multiplied where they are truthy
adaptParameters(template, regime) ==
  LET params == template.parameters
      adapted(value) == IF value # 0 THEN (value * volMultiplier(regime)) \div 10 ELSE value
  IN  [params EXCEPT !.stopLoss = adapted(@), !.trailingStop = adapted(@),
                     !.targetProfit = adapted(@)]

\* latestPrice * (1 + fraction), the fraction in 1e-5 units
priceAt(latestPrice, fraction) == (latestPrice * (100000 + fraction)) \div 100000

\* generateSignal: the signal of an active strategy, <<>> for null.  The id
\* uuidv4() draws is kept in the SystemState; here a signal is named by its
\* strategy
generateSignal(strategy, features, regime) ==
  LET latestPrice == latestPriceOf(features)
      type == strategy.template.id
      multiplier == volMultiplier(regime)
      momentum == features.priceHistory.momentum
      trendStrength == features.priceHistory.trendStrength
      dealer == features.dealerPositioning
      proposal ==
        CASE type = "gamma_scalp_v1" ->
               IF features.gammaPull.direction > 0 /\ features.gammaPull.magnitude > 300
               THEN [direction |-> "long", strength |-> features.gammaPull.magnitude,
                     stopLoss |-> priceAt(latestPrice, 0 - (300 * multiplier) \div 10),
                     targets |-> <<priceAt(latestPrice, (500 * multiplier) \div 10)>>]
               ELSE IF features.gammaPull.direction < 0 /\ features.gammaPull.magnitude > 300
               THEN [direction |-> "short", strength |-> features.gammaPull.magnitude,
                     stopLoss |-> priceAt(latestPrice, (300 * multiplier) \div 10),
                     targets |-> <<priceAt(latestPrice, 0 - (500 * multiplier) \div 10)>>]
               ELSE [direction |-> "neutral", strength |-> 0, stopLoss |-> 0,
                     targets |-> <<>>]
          [] type = "momentum_follow_v1" ->
               IF momentum > 150
               THEN [direction |-> "long", strength |-> Min2(momentum * 2, 1000),
                     stopLoss |-> priceAt(latestPrice, 0 - (2000 * multiplier) \div 10),
                     targets |-> <<priceAt(latestPrice, (25 * ((2000 * multiplier) \div 10)) \div 10)>>]
               ELSE IF momentum < 0 - 150
               THEN [direction |-> "short", strength |-> Min2((0 - momentum) * 2, 1000),
                     stopLoss |-> priceAt(latestPrice, (2000 * multiplier) \div 10),
                     targets |-> <<priceAt(latestPrice,
                                           0 - (25 * ((2000 * multiplier) \div 10)) \div 10)>>]
               ELSE [direction |-> "neutral", strength |-> 0, stopLoss |-> 0,
                     targets |-> <<>>]
          [] type = "mean_reversion_v1" ->
               IF trendStrength > 600
               THEN IF features.priceHistory.trend = "up"
                    THEN [direction |-> "short", strength |-> (trendStrength * 8) \div 10,
                          stopLoss |-> priceAt(latestPrice, 3000),
                          targets |-> <<priceAt(latestPrice, 0 - 1000),
                                        priceAt(latestPrice, 0 - 2000)>>]
                    ELSE [direction |-> "long", strength |-> (trendStrength * 8) \div 10,
                          stopLoss |-> priceAt(latestPrice, 0 - 3000),
                          targets |-> <<priceAt(latestPrice, 1000),
                                        priceAt(latestPrice, 2000)>>]
               ELSE [direction |-> "neutral", strength |-> 0, stopLoss |-> 0,
                     targets |-> <<>>]
          [] type = "flow_alignment_v1" ->
               IF dealer.flowDirection = "buying" /\ dealer.confidence > 500
               THEN [direction |-> "long", strength |-> dealer.confidence,
                     stopLoss |-> priceAt(latestPrice, 0 - 2000),
                     targets |-> <<priceAt(latestPrice, 2000), priceAt(latestPrice, 4000)>>]
               ELSE IF dealer.flowDirection = "selling" /\ dealer.confidence > 500
               THEN [direction |-> "short", strength |-> dealer.confidence,
                     stopLoss |-> priceAt(latestPrice, 2000),
                     targets |-> <<priceAt(latestPrice, 0 - 2000),
                                   priceAt(latestPrice, 0 - 4000)>>]
               ELSE [direction |-> "neutral", strength |-> 0, stopLoss |-> 0,
                     targets |-> <<>>]
          [] OTHER ->
               IF regime.characteristics.trend = "up" /\ regime.confidence > 600
               THEN [direction |-> "long", strength |-> (regime.confidence * 7) \div 10,
                     stopLoss |-> priceAt(latestPrice, 0 - 3000),
                     targets |-> <<priceAt(latestPrice, 2000)>>]
               ELSE IF regime.characteristics.trend = "down" /\ regime.confidence > 600
               THEN [direction |-> "short", strength |-> (regime.confidence * 7) \div 10,
                     stopLoss |-> priceAt(latestPrice, 3000),
                     targets |-> <<priceAt(latestPrice, 0 - 2000)>>]
               ELSE [direction |-> "neutral", strength |-> 0, stopLoss |-> 0,
                     targets |-> <<>>]
  IN  IF latestPrice = 0 THEN <<>>
      ELSE IF proposal.direction = "neutral" \/ proposal.strength < 300 THEN <<>>
      ELSE << [id |-> strategy.template.id, strategyId |-> strategy.template.id,
               direction |-> proposal.direction, strength |-> proposal.strength,
               confidence |-> strategy.activationScore, entryPrice |-> latestPrice,
               stopLoss |-> proposal.stopLoss, targets |-> proposal.targets,
               gammaLevel |-> features.gammaSurface.netGamma] >>

\* OmnicanonSystem.generateSignals: the current signals of the strategies
\* that have one
RECURSIVE generateSignals(_, _, _)
generateSignals(strategies, features, regime) ==
  IF strategies = <<>> THEN <<>>
  ELSE generateSignal(Head(strategies), features, regime)
         \o generateSignals(Tail(strategies), features, regime)

----------------------------------------------------------------------------
(* OmnicanonSystem: phases 1 to 4 of rootFunction *)

\* the coherence rootFunction passes to the preliminary activation
PreliminaryCoherence ==
  [total |-> 500, confidence |-> 500, structural |-> 500, regime |-> 500,
   temporal |-> 500, fractal |-> 500, convergence |-> 500]

\* what phases 1 to 4 hand on: the states they leave in the PerceptionMatrix
\* (pm), the MetaController (mc) and the StrategyPool (map), and their outputs
perceived(p, c, scores, coherenceScore, final, signals) ==
  [pm |-> p.pm, mc |-> c.mc, map |-> final.activeStrategies, scores |-> scores,
   structuralFeatures |-> p.structuralFeatures, regime |-> c.regime,
   coherenceScore |-> coherenceScore, activeStrategies |-> final.returned,
   signals |-> signals]

\* the SystemState a tick resolves with, as far as phases 1 to 4 and the
\* visualization determine it: draw stands for the values uuidv4() and
\* Math.random() return outside the execution simulator (the signal ids, the
\* heatmap cell of every active strategy, the particles of every level of at
\* least 1000 units)
systemState(p, draw) ==
  [structuralFeatures |-> p.structuralFeatures,
   regime |-> p.regime,
   coherenceScore |-> p.coherenceScore,
   activeStrategies |-> p.activeStrategies,
   signals |-> [i \in 1..Len(p.signals) |-> [p.signals[i] EXCEPT !.id = <<@, draw>>]],
   attentionHeatmap |-> [i \in 1..Len(p.activeStrategies) |-> draw],
   liquidityParticles |->
     [i \in 1..Len(p.structuralFeatures.liquidityMap.levels) |->
        IF Min2(10, p.structuralFeatures.liquidityMap.levels[i].volume \div 1000) > 0
        THEN draw ELSE 0]]

----------------------------------------------------------------------------
(* LearningEngine                                                          *)
(*                                                                         *)
(* Units: pnl in dollars, pnlPercent, recentPerformance, adaptationScore   *)
(* and maxDrawdown in 1e-4 units, a win rate as wins out of totalTrades,   *)
(* the profit factor per mille, feature importance in 1e-4 units           *)

\* capacity of the outcome buffer, parameter updates and versions retained
OutcomeCapacity == 10000
UpdatesRetained == 100
VersionsRetained == 50

\* the features initializeFeatureImportance lists
ImportanceFeatures ==
  <<"momentum", "trendStrength", "volatility", "gammaConcentration",
    "liquidityImbalance", "dealerFlow", "coherence", "regimeConfidence">>

FeatureNames == {ImportanceFeatures[i] : i \in 1..Len(ImportanceFeatures)}

\* 1 / features.length for every feature
initializeFeatureImportance ==
  [f \in FeatureNames |-> 10000 \div Len(ImportanceFeatures)]

\* the fields of a LearningEngine after construction
newLearningEngine ==
  [tradeOutcomes |-> <<>>, learningProgress |-> <<>>, strategyEvolutions |-> <<>>,
   featureImportance |-> initializeFeatureImportance]

\* a Map keyed by strategyId is the sequence of its values in insertion order
HasStrategy(m, strategyId) == \E i \in 1..Len(m) : m[i].strategyId = strategyId

GetStrategy(m, strategyId) == m[CHOOSE i \in 1..Len(m) : m[i].strategyId = strategyId]

SetStrategy(m, e) ==
  IF HasStrategy(m, e.strategyId)
  THEN [i \in 1..Len(m) |-> IF m[i].strategyId = e.strategyId THEN e ELSE m[i]]
  ELSE Append(m, e)

\* the price exitFeatures ends with
exitPriceOf(exitFeatures) ==
  exitFeatures.priceHistory.prices[Len(exitFeatures.priceHistory.prices)]

\* analyzeOutcome up to the outcome record: the fields read from the
\* buffer later on (structuralFeaturesAtEntry, which only the call itself
\* reads, is handed to updateFeatureImportance beside the outcome)
tradeOutcome(executionResult, entryFeatures, exitFeatures, signal) ==
  LET order == executionResult.order
      exitPrice == exitPriceOf(exitFeatures)
      pnl == IF order.side = "buy"
             THEN ((exitPrice - order.avgFillPrice) * order.filledSize) \div 1000
             ELSE ((order.avgFillPrice - exitPrice) * order.filledSize) \div 1000
      pnlPercent ==
        IF order.avgFillPrice = 0 \/ order.filledSize = 0
        THEN (IF pnl = 0 THEN NaN ELSE IF pnl > 0 THEN Infinity ELSE NegInfinity)
        ELSE IF order.side = "buy"
        THEN ((exitPrice - order.avgFillPrice) * 10000) \div order.avgFillPrice
        ELSE ((order.avgFillPrice - exitPrice) * 10000) \div order.avgFillPrice
  IN  [signalId |-> signal.id, strategyId |-> signal.strategyId,
       pnl |-> pnl, pnlPercent |-> pnlPercent]

\* CircularBuffer.add on the outcome buffer, as the array toArray() returns
addOutcome(outcomes, outcome) ==
  IF Len(outcomes) < OutcomeCapacity THEN Append(outcomes, outcome)
  ELSE Append(Tail(outcomes), outcome)

\* the largest of equity[lo..hi]
RECURSIVE MaxRange(_, _, _)
MaxRange(equity, lo, hi) ==
  IF lo = hi THEN equity[lo]
  ELSE Max2(MaxRange(equity, lo, (lo + hi) \div 2),
            MaxRange(equity, (lo + hi) \div 2 + 1, hi))

\* the loop of utils/math maxDrawdown over equity[lo..hi], entered with
\* maxValue; the two halves of the range are taken one after the other
RECURSIVE drawdownOver(_, _, _, _)
drawdownOver(equity, lo, hi, maxValue) ==
  IF lo = hi
  THEN ((Max2(maxValue, equity[lo]) - equity[lo]) * 10000) \div Max2(maxValue, equity[lo])
  ELSE Max2(drawdownOver(equity, lo, (lo + hi) \div 2, maxValue),
            drawdownOver(equity, (lo + hi) \div 2 + 1, hi,
                         Max2(maxValue, MaxRange(equity, lo, (lo + hi) \div 2))))

maxDrawdown(equity) ==
  IF equity = <<>> THEN 0 ELSE drawdownOver(equity, 1, Len(equity), equity[1])

\* the sum of the pnl of outcomes[lo..hi]
RECURSIVE pnlOver(_, _, _)
pnlOver(outcomes, lo, hi) ==
  IF lo > hi THEN 0
  ELSE IF lo = hi THEN outcomes[lo].pnl
  ELSE pnlOver(outcomes, lo, (lo + hi) \div 2) + pnlOver(outcomes, (lo + hi) \div 2 + 1, hi)

\* calculateEquityCurve: 100000 and the running sums of the pnl after it
RECURSIVE equityFrom(_, _, _, _)
equityFrom(outcomes, lo, hi, equity) ==
  IF lo > hi THEN <<>>
  ELSE IF lo = hi THEN <<equity + outcomes[lo].pnl>>
  ELSE equityFrom(outcomes, lo, (lo + hi) \div 2, equity)
         \o equityFrom(outcomes, (lo + hi) \div 2 + 1, hi,
                       equity + pnlOver(outcomes, lo, (lo + hi) \div 2))

calculateEquityCurve(outcomes) == <<100000>> \o equityFrom(outcomes, 1, Len(outcomes), 100000)

\* updateStrategyPerformance: the StrategyPerformance of a strategy over the
\* outcomes kept for it (the Sharpe ratio, which nothing reads, is left out)
strategyPerformance(tradeOutcomesKept, strategyId) ==
  LET outcomes == SelectSeq(tradeOutcomesKept, LAMBDA o : o.strategyId = strategyId)
      pnls == [i \in 1..Len(outcomes) |-> outcomes[i].pnlPercent]
      \* mean(...) || 0
      orZero(x) == IF x = NaN THEN 0 ELSE x
      avgWin == orZero(mean(SelectSeq(pnls, LAMBDA p : gt(p, 0))))
      avgLoss == Abs(orZero(mean(SelectSeq(pnls, LAMBDA p : lt(p, 0)))))
      half == Len(pnls) \div 2
      firstHalf == SubSeq(pnls, 1, half)
      secondHalf == SubSeq(pnls, half + 1, Len(pnls))
  IN  [totalTrades |-> Len(outcomes),
       wins |-> Len(SelectSeq(outcomes, LAMBDA o : o.pnl > 0)),
       profitFactor |-> IF avgLoss > 0 THEN (avgWin * 1000) \div avgLoss
                        ELSE IF avgWin > 0 THEN 999000 ELSE 0,
       maxDrawdown |-> maxDrawdown(calculateEquityCurve(outcomes)),
       recentPerformance |-> mean(lastN(pnls, 20)),
       adaptationScore |-> IF Len(secondHalf) > 0 /\ Len(firstHalf) > 0
                           THEN minus(mean(secondHalf), mean(firstHalf)) ELSE 0]

\* suggestParameterAdjustments: the updates suggested, in the order pushed
suggestParameterAdjustments(performance, time) ==
  (IF performance.wins * 10 < 4 * performance.totalTrades /\ performance.totalTrades > 20
   THEN <<[parameter |-> "activationThreshold", timestamp |-> time]>> ELSE <<>>)
    \o (IF performance.profitFactor < 1000 /\ performance.totalTrades > 30
        THEN <<[parameter |-> "stopLossMultiple", timestamp |-> time]>> ELSE <<>>)
    \o (IF performance.maxDrawdown > 1500
        THEN <<[parameter |-> "positionSizeMultiple", timestamp |-> time]>> ELSE <<>>)
    \o (IF lt(performance.recentPerformance, 0 - 200)
        THEN <<[parameter |-> "confidenceThreshold", timestamp |-> time]>> ELSE <<>>)

\* updateLearningProgress keeping every update
updateLearningProgressKeepingAll(learningProgressMap, strategyId, performance, time) ==
  LET updates == IF HasStrategy(learningProgressMap, strategyId)
                 THEN GetStrategy(learningProgressMap, strategyId).parameterUpdates
                 ELSE <<>>
      recentUpdates == updates \o suggestParameterAdjustments(performance, time)
  IN  SetStrategy(learningProgressMap,
                  [strategyId |-> strategyId, parameterUpdates |-> recentUpdates,
                   performanceDelta |-> performance.adaptationScore,
                   adaptationCount |-> Len(recentUpdates)])

updateLearningProgress(learningProgressMap, strategyId, performance, time) ==
  LET updates == IF HasStrategy(learningProgressMap, strategyId)
                 THEN GetStrategy(learningProgressMap, strategyId).parameterUpdates
                 ELSE <<>>
      recentUpdates ==
        lastN(updates \o suggestParameterAdjustments(performance, time), UpdatesRetained)
  IN  SetStrategy(learningProgressMap,
                  [strategyId |-> strategyId, parameterUpdates |-> recentUpdates,
                   performanceDelta |-> performance.adaptationScore,
                   adaptationCount |-> Len(recentUpdates)])

\* Math.abs(winRate - winRate of the last version) > 0.05
winRateMoved(performance, last) ==
  20 * Abs(performance.wins * last.totalTrades - last.wins * performance.totalTrades)
    > performance.totalTrades * last.totalTrades

updateStrategyEvolution(strategyEvolutionMap, strategyId, performance, time) ==
  LET versions == IF HasStrategy(strategyEvolutionMap, strategyId)
                  THEN GetStrategy(strategyEvolutionMap, strategyId).versions
                  ELSE <<>>
      shouldCreateVersion ==
        versions = <<>> \/ winRateMoved(performance, versions[Len(versions)].performance)
      pushed == IF shouldCreateVersion
                THEN Append(versions, [version |-> Len(versions) + 1,
                                       performance |-> performance, timestamp |-> time])
                ELSE versions
      recentVersions == lastN(pushed, VersionsRetained)
  IN  SetStrategy(strategyEvolutionMap,
                  [strategyId |-> strategyId, versions |-> recentVersions,
                   currentVersion |-> Len(recentVersions)])

\* adjustFeatureImportance: Math.max(0.01, current + adjustment)
adjustFeatureImportance(importance, feature, adjustment) ==
  [importance EXCEPT ![feature] = Max2(100, @ + adjustment)]

\* value / total for every feature, rounded to the nearest unit
normalizeFeatureImportance(importance) ==
  LET total == SumSeq([i \in 1..Len(ImportanceFeatures) |->
                         importance[ImportanceFeatures[i]]])
  IN  IF total > 0
      THEN [f \in FeatureNames |-> (importance[f] * 10000 + total \div 2) \div total]
      ELSE importance

\* the adjustments of updateFeatureImportance, before the normalization
adjustedFeatureImportance(importance, outcome, features) ==
  LET adjustmentFactor == IF outcome.pnl > 0 THEN 100 ELSE 0 - 50
      i1 == IF Abs(features.priceHistory.momentum) > 100
            THEN adjustFeatureImportance(importance, "momentum", adjustmentFactor)
            ELSE importance
      i2 == IF gt(features.volatilityRegime.impliedVol, 3000)
            THEN adjustFeatureImportance(i1, "volatility", adjustmentFactor) ELSE i1
      i3 == IF features.gammaPull.magnitude > 500
            THEN adjustFeatureImportance(i2, "gammaConcentration", adjustmentFactor) ELSE i2
      i4 == IF Abs(features.liquidityMap.imbalance) > 200
            THEN adjustFeatureImportance(i3, "liquidityImbalance", adjustmentFactor) ELSE i3
  IN  IF features.dealerPositioning.confidence > 500
      THEN adjustFeatureImportance(i4, "dealerFlow", adjustmentFactor) ELSE i4

\* updateFeatureImportance left without its normalization
updateFeatureImportanceUnnormalized(importance, outcome, structuralFeaturesAtEntry) ==
  adjustedFeatureImportance(importance, outcome, structuralFeaturesAtEntry)

updateFeatureImportance(importance, outcome, structuralFeaturesAtEntry) ==
  normalizeFeatureImportance(
    adjustedFeatureImportance(importance, outcome, structuralFeaturesAtEntry))

\* analyzeOutcome from the outcome record on: the outcome is added to the
\* buffer, and updateStrategyPerformance and updateFeatureImportance run;
\* performance is the StrategyPerformance over the buffer with the outcome
recordOutcome(le, outcome, entryFeatures, performance, time) ==
  [tradeOutcomes |-> addOutcome(le.tradeOutcomes, outcome),
   learningProgress |->
     updateLearningProgress(le.learningProgress, outcome.strategyId, performance, time),
   strategyEvolutions |->
     updateStrategyEvolution(le.strategyEvolutions, outcome.strategyId, performance, time),
   featureImportance |->
     updateFeatureImportance(le.featureImportance, outcome, entryFeatures)]

analyzeOutcomeOf(le, executionResult, entryFeatures, exitFeatures, signal, time) ==
  LET outcome == tradeOutcome(executionResult, entryFeatures, exitFeatures, signal)
  IN  recordOutcome(le, outcome, entryFeatures,
                    strategyPerformance(addOutcome(le.tradeOutcomes, outcome),
                                        outcome.strategyId),
                    time)

\* the Signal learnFromOutcome builds for a result
simulatedSignal(result) ==
  [id |-> result.order.signalId, strategyId |-> result.order.signalId,
   direction |-> IF result.order.side = "buy" THEN "long" ELSE "short"]

\* the loop of OmnicanonSystem.learnFromOutcome on the learning engine
RECURSIVE learnedFrom(_, _, _, _)
learnedFrom(le, results, features, time) ==
  IF results = <<>> THEN le
  ELSE IF ~Head(results).success THEN learnedFrom(le, Tail(results), features, time)
  ELSE learnedFrom(analyzeOutcomeOf(le, Head(results), features, features,
                                    simulatedSignal(Head(results)), time),
                   Tail(results), features, time)

\* LearningEngine.reset
resetLearning(le) == newLearningEngine

----------------------------------------------------------------------------
(* FractalMemory.getSimilarPatterns *)

\* utils/math normalize, per mille: a NaN element makes Math.min and Math.max
\* NaN, and every element with them
normalize(arr) ==
  IF \E i \in 1..Len(arr) : arr[i] = NaN THEN [i \in 1..Len(arr) |-> NaN]
  ELSE LET values == {arr[i] : i \in 1..Len(arr)}
           lowest == CHOOSE x \in values : \A y \in values : x <= y
           highest == CHOOSE x \in values : \A y \in values : x >= y
           range == highest - lowest
       IN  IF range = 0 THEN [i \in 1..Len(arr) |-> 500]
           ELSE [i \in 1..Len(arr) |-> ((arr[i] - lowest) * 1000) \div range]

\* the candidate getSimilarPatterns pushes for a stored id
candidate(fm, queryFeatures, patternId) ==
  LET similarity == cosineSimilarity(queryFeatures,
                                     GetById(fm.fingerprints, patternId).features)
  IN  [pattern |-> [GetById(fm.patterns, patternId) EXCEPT !.similarity = similarity],
       similarity |-> similarity]

\* the candidates of the ids of a list that have a fingerprint and a pattern
candidatesOf(fm, queryFeatures, ids) ==
  LET present == SelectSeq(ids, LAMBDA id : HasId(fm.fingerprints, id) /\ HasId(fm.patterns, id))
  IN  [i \in 1..Len(present) |-> candidate(fm, queryFeatures, present[i])]

\* the candidates before the sort: those of the same-regime bucket and, when
\* they are fewer than limit, those of the fingerprints not in the bucket
similarities(fm, queryFeatures, regime, limit) ==
  LET sameRegimeIds == MapGet(fm.index.byRegime, regime.type)
      bucket == candidatesOf(fm, queryFeatures, sameRegimeIds)
      others == SelectSeq([i \in 1..Len(fm.fingerprints) |-> fm.fingerprints[i].id],
                          LAMBDA id : \A k \in 1..Len(sameRegimeIds) : sameRegimeIds[k] # id)
  IN  IF Len(bucket) < limit THEN bucket \o candidatesOf(fm, queryFeatures, others)
      ELSE bucket

\* sort((a, b) => b.similarity - a.similarity) on finite similarities: a
\* stable sort by descending similarity
RECURSIVE InsertBySimilarity(_, _)
InsertBySimilarity(s, x) ==
  IF s = <<>> THEN <<x>>
  ELSE IF x.similarity > Head(s).similarity THEN <<x>> \o s
  ELSE <<Head(s)>> \o InsertBySimilarity(Tail(s), x)

RECURSIVE SortBySimilarity(_)
SortBySimilarity(s) ==
  IF s = <<>> THEN <<>>
  ELSE InsertBySimilarity(SortBySimilarity(SubSeq(s, 1, Len(s) - 1)), s[Len(s)])

\* the orders the sort can leave the candidates in.  With a NaN similarity
\* the comparator returns NaN, is no consistent comparator, and the order is
\* implementation-defined: any arrangement of the candidates
sortedOrders(s) ==
  IF \E i \in 1..Len(s) : s[i].similarity = NaN
  THEN {[i \in 1..Len(s) |-> s[p[i]]] :
          p \in {q \in [1..Len(s) -> 1..Len(s)] :
                   \A i, j \in 1..Len(s) : q[i] = q[j] => i = j}}
  ELSE {SortBySimilarity(s)}

\* getSimilarPatterns: the lists it can return; features is the vector
\* createFingerprint extracts, which the fingerprint holds normalized
getSimilarPatterns(fm, features, regime, limit) ==
  LET queryFeatures == normalize(features)
      found == similarities(fm, queryFeatures, regime, limit)
  IN  {[i \in 1..Len(slice(sorted, limit)) |-> slice(sorted, limit)[i].pattern] :
         sorted \in sortedOrders(found)}

----------------------------------------------------------------------------
(* WebSocketService *)

\* config.reconnectAttempts when the caller gives none
DefaultReconnectAttempts == 10

wsState ==
  [ws |-> ws, sockets |-> sockets, isConnecting |-> isConnecting,
   shouldReconnect |-> shouldReconnect, reconnectCount |-> reconnectCount,
   reconnectTimer |-> reconnectTimer, timerPending |-> timerPending,
   heartbeatTimer |-> heartbeatTimer, reconnectAttempts |-> reconnectAttempts]

\* a service as its field initializers and its constructor leave it
newWebSocketService(attempts) ==
  [ws |-> 0, sockets |-> <<>>, isConnecting |-> FALSE, shouldReconnect |-> TRUE,
   reconnectCount |-> 0, reconnectTimer |-> FALSE, timerPending |-> FALSE,
   heartbeatTimer |-> FALSE, reconnectAttempts |-> attempts]

\* this.ws?.readyState === WebSocket.OPEN
isConnected(w) == w.ws # 0 /\ w.sockets[w.ws] = "OPEN"

\* the sockets that are connecting or open
Live(socketStates) ==
  {s \in 1..Len(socketStates) : socketStates[s] \in {"CONNECTING", "OPEN"}}

\* connect: new WebSocket(url) with the url of the configuration, which is
\* well formed, so that the constructor does not throw
connect(w) ==
  IF isConnected(w) \/ w.isConnecting THEN w
  ELSE [w EXCEPT !.isConnecting = TRUE, !.shouldReconnect = TRUE,
                 !.sockets = Append(@, "CONNECTING"), !.ws = Len(w.sockets) + 1]

\* scheduleReconnect: clearTimeout of the timer the field holds, then a new
\* timer unless the attempts are used up
scheduleReconnect(w) ==
  LET cleared == IF w.reconnectTimer THEN [w EXCEPT !.timerPending = FALSE] ELSE w
  IN  IF cleared.reconnectCount >= cleared.reconnectAttempts THEN cleared
      ELSE [cleared EXCEPT !.reconnectCount = @ + 1, !.reconnectTimer = TRUE,
                           !.timerPending = TRUE]

stopHeartbeat(w) == IF w.heartbeatTimer THEN [w EXCEPT !.heartbeatTimer = FALSE] ELSE w

startHeartbeat(w) == [stopHeartbeat(w) EXCEPT !.heartbeatTimer = TRUE]

\* the onopen handler setupEventHandlers installs (resubscribe and the
\* connect handlers send and notify only)
onopen(w) == startHeartbeat([w EXCEPT !.isConnecting = FALSE, !.reconnectCount = 0])

\* the onclose handler setupEventHandlers installs
onclose(w) ==
  LET stopped == stopHeartbeat([w EXCEPT !.isConnecting = FALSE])
  IN  IF stopped.shouldReconnect THEN scheduleReconnect(stopped) ELSE stopped

\* WebSocket.close(): the closing handshake starts, the close event comes later
closing(readyState) ==
  IF readyState \in {"CONNECTING", "OPEN"} THEN "CLOSING" ELSE readyState

disconnect(w) ==
  LET cleared == IF w.reconnectTimer
                 THEN [w EXCEPT !.shouldReconnect = FALSE, !.reconnectTimer = FALSE,
                                !.timerPending = FALSE]
                 ELSE [w EXCEPT !.shouldReconnect = FALSE]
      stopped == stopHeartbeat(cleared)
  IN  IF stopped.ws # 0
      THEN [stopped EXCEPT !.sockets[stopped.ws] = closing(@), !.ws = 0]
      ELSE stopped

----------------------------------------------------------------------------
(* The inputs explored *)

Signal(id, direction, strength, confidence, entryPrice, stopLoss, target, gammaLevel) ==
  [id |-> id, strategyId |-> id, direction |-> direction, strength |-> strength,
   confidence |-> confidence, entryPrice |-> entryPrice, stopLoss |-> stopLoss,
   targets |-> <<target>>, gammaLevel |-> gammaLevel]

\* the first seven are signals as StrategyPool.generateSignal forms them (the
\* entry is the latest price, the stop and the first target lie on opposite
\* sides of it); the last is a Signal whose targets array is empty
BaseSignals ==
  << Signal("scalpLong", "long", 900, 800, 1000, 997, 1005, 0),
     Signal("fadeShort", "short", 600, 700, 1000, 1020, 950, 0),
     Signal("flowLong", "long", 900, 700, 1000, 995, 1010, 0),
     Signal("bigTicket", "long", 900, 800, 30000, 29910, 30150, 0),
     Signal("wideLong", "long", 400, 700, 1000, 970, 1020, 0),
     Signal("gammaShort", "short", 900, 800, 1000, 1003, 995, 200000),
     Signal("weakLong", "long", 400, 300, 1000, 980, 1020, 0),
     [Signal("noTarget", "long", 900, 800, 1000, 997, 1005, 0) EXCEPT !.targets = <<>>] >>

\* the order-preserving sublists of s with at most n elements
RECURSIVE SubLists(_, _)
SubLists(s, n) ==
  IF s = <<>> \/ n = 0 THEN {<<>>}
  ELSE SubLists(Tail(s), n)
         \cup {<<Head(s)>> \o t : t \in SubLists(Tail(s), n - 1)}

SignalLists == SubLists(BaseSignals, MaxSignals)
ProbeLists == SubLists(SubSeq(BaseSignals, 1, 4), MaxSignals)
SysSignalLists == SubLists(SubSeq(BaseSignals, 1, 3), MaxSignals)
TickSignalLists == SubLists(SubSeq(BaseSignals, 1, 2), MaxSignals)

Position(side, shares, price) ==
  [side |-> side, size |-> shares, entryPrice |-> price, currentPrice |-> price,
   strategyId |-> "held"]

Pf(totalValue, marginUsed, marginAvailable, pnl, positions) ==
  [positions |-> positions, totalValue |-> totalValue,
   cashBalance |-> totalValue
      - SumSeq([i \in 1..Len(positions) |->
                  notional(positions[i].size, positions[i].currentPrice)]),
   marginUsed |-> marginUsed, marginAvailable |-> marginAvailable, dailyPnL |-> pnl]

\* portfolios handed to RiskGovernance.filterSignals by a direct caller
Portfolios ==
  { Pf(100000, 0, 50000, 0, <<>>),
    Pf(80000, 0, 50000, 0, <<>>),
    Pf(100000, 0, 50000, 0 - 6000, <<>>),
    Pf(100000, 0, 50000, 6000, <<>>),
    Pf(80000, 0, 50000, 0 - 6000, <<>>),
    Pf(100000, 40000, 10000, 0, <<>>),
    Pf(100000, 0, 5000, 0, <<>>),
    Pf(100000, 37500, 12500, 0,
       <<Position("long", 25000, 1000), Position("long", 25000, 1000),
         Position("long", 25000, 1000)>>),
    Pf(100000, 12500, 37500, 0, <<Position("short", 25000, 1000)>>) }

Normal == [regime |-> "normal"]
FeatureSets == { Normal, [regime |-> "extreme"] }

\* the features of a tick: the volatility regime, and the market regime
\* classifyRegime finds in them
Calm == [regime |-> "normal", market |-> "range_bound"]
TickFeatures == { Calm, [regime |-> "normal", market |-> "trending_bullish"] }

\* the calls of filterSignals explored: every signal list on the initial
\* portfolio under each volatility regime, and the probe lists on every
\* portfolio
DirectCalls ==
  {[signals |-> s, pf |-> initializePortfolio, features |-> f] :
      s \in SignalLists, f \in FeatureSets}
  \cup {[signals |-> s, pf |-> p, features |-> Normal] :
      s \in ProbeLists, p \in Portfolios}

\* reasons a caller passes to activateKillSwitch
CallerReasons == { <<"manual", "halt">>, <<"desk", "daily", "loss", "limit">> }

LimitUpdates == { [maxDrawdown |-> 250, maxPositionSize |-> 50] }

\* Math.random() per mille, and the slippage realised by a fill (1e-4)
RandomFactors == { 150, 900 }
Slippages == { 100 }

\* what storePattern is given: the regime and the outcome of the trade
StoreInputs ==
  { [regime |-> [type |-> "trending_bullish"], outcome |-> [pnl |-> 5]],
    [regime |-> [type |-> "range_bound"], outcome |-> [pnl |-> 0 - 5]] }

\* the time that passes before each of the two Date.now() calls of storePattern
\* (milliseconds; the clock starts at the beginning of an hour)
ClockSteps == { <<0, 0>>, <<1800000, 0>>, <<0, 1800000>> }

\* patterns a caller hands to importPatterns that no storePattern produced
ForeignPatterns ==
  { [id |-> 0, timestamp |-> 0, structuralFingerprint |-> "f",
     outcome |-> [pnl |-> pnl], regime |-> [type |-> "range_bound"], similarity |-> 1] :
      pnl \in {5, 0 - 5} }

\* what activateStrategies is given: the scores of the strategy-specific
\* conditions, the regime and the coherence
PoolFeatures ==
  { StrategyScores(0, 0, 0, 0, 0), StrategyScores(400, 400, 400, 400, 400),
    StrategyScores(500, 400, 400, 400, 500), StrategyScores(400, 400, 500, 400, 400) }

PoolRegimes ==
  { [type |-> t, confidence |-> c] :
      t \in {"range_bound", "trending_bullish", "gamma_squeeze"}, c \in {600, 900} }

Coherences ==
  { [total |-> 800, confidence |-> 500], [total |-> 800, confidence |-> 60],
    [total |-> 800, confidence |-> 30] }

\* the bundles rootFunction is given: bars (their closes), an option chain, an
\* order book and the recent trades
Bar(close) == [close |-> close]
Level(price, volume) == [price |-> price, size |-> volume]
Option(type, strike, expiry, gamma, openInterest, impliedVolatility, delta, volume) ==
  [type |-> type, strike |-> strike, expiry |-> expiry, gamma |-> gamma,
   openInterest |-> openInterest, impliedVolatility |-> impliedVolatility,
   delta |-> delta, volume |-> volume]

NeutralBook ==
  [bids |-> <<Level(99, 500)>>, asks |-> <<Level(101, 500)>>, midPrice |-> 100]

\* empty chain, neutral book, constant closes
Flat ==
  [chain |-> <<>>, underlyingPrice |-> 100, ohlcv |-> <<Bar(100), Bar(100), Bar(100)>>,
   orderBook |-> NeutralBook, trades |-> <<>>]
\* the same with one trade printed
FlatTraded == [Flat EXCEPT !.trades = <<[price |-> 100, size |-> 200]>>]
\* the price 20% higher, a call 0.05 gamma x 120000 contracts above it and
\* the bids three times the asks
Rally ==
  [chain |-> <<Option("call", 125, 30, 5, 120000, 2000, 500, 1000)>>,
   underlyingPrice |-> 120, ohlcv |-> <<Bar(120), Bar(120)>>,
   orderBook |-> [bids |-> <<Level(119, 3000)>>, asks |-> <<Level(121, 1000)>>,
                  midPrice |-> 120],
   trades |-> <<>>]
\* no bars, no options, an empty book
Empty ==
  [chain |-> <<>>, underlyingPrice |-> 100, ohlcv |-> <<>>,
   orderBook |-> [bids |-> <<>>, asks |-> <<>>, midPrice |-> 0], trades |-> <<>>]
\* bars of a halted instrument: closes of 0
Halted == [Flat EXCEPT !.ohlcv = <<Bar(0), Bar(0)>>]

Bundles == { Flat, FlatTraded, Rally, Empty, Halted }

\* what uuidv4() and Math.random() return outside the execution simulator
RandomDraws == { 1, 2 }

\* approved signals handed to ExecutionEngine.execute by a direct caller: one
\* per order type and urgency the fill simulation distinguishes
EngineSignal(orderType, urgency) ==
  [originalSignal |-> BaseSignals[1], approvedSize |-> 5000,
   executionConstraints |->
     [urgency |-> urgency, orderType |-> orderType,
      timeInForce |-> IF orderType = "market" THEN "ioc" ELSE "day"]]

EngineSignals ==
  << EngineSignal("market", "high"), EngineSignal("limit", "high"),
     EngineSignal("limit", "medium"), EngineSignal("limit", "low") >>

EngineBatches == SubLists(EngineSignals, MaxSignals)

\* Math.random() per mille in simulateFillRate: a value in each interval its
\* comparisons distinguish
EngineRandomFactors == { 50, 150, 300, 500, 900 }

\* structural features as far as analyzeOutcome and learnFromOutcome read
\* them: the latest price, and the quantities updateFeatureImportance tests,
\* either all beyond their thresholds or none
LearningFeatures(latestPrice, prominent) ==
  [priceHistory |-> [prices |-> <<latestPrice>>, momentum |-> IF prominent THEN 200 ELSE 0],
   volatilityRegime |-> [impliedVol |-> IF prominent THEN 3500 ELSE 2000,
                         regime |-> "normal"],
   gammaPull |-> [magnitude |-> IF prominent THEN 600 ELSE 0],
   liquidityMap |-> [imbalance |-> IF prominent THEN 300 ELSE 0],
   dealerPositioning |-> [confidence |-> IF prominent THEN 600 ELSE 0],
   regime |-> "normal", market |-> "range_bound"]

\* what uuidv4() returns: a string no other call returns, made of a serial
\* number
uuidv4(serial) == "uuid-" \o ToString(serial)

\* a signal of a strategy as StrategyPool.generateSignal forms it
LearningSignal(strategyId, serial) ==
  [Signal(strategyId, "long", 700, 700, 100, 97, 103, 0) EXCEPT !.id = uuidv4(serial)]

\* the result of the market order of a signal approved for approvedSize
\* dollars, filled at the entry price of 100
FilledResult(signal, approvedSize) ==
  executeSignal([originalSignal |-> signal, approvedSize |-> approvedSize,
                 executionConstraints |->
                   [urgency |-> "high", orderType |-> "market", timeInForce |-> "ioc"]],
                900, 0)

\* the trades analysed: one share closed 3% higher or lower, and a thousand
\* shares closed 20% lower
Trades ==
  { [name |-> "win", approvedSize |-> 100, exitPrice |-> 103],
    [name |-> "loss", approvedSize |-> 100, exitPrice |-> 97],
    [name |-> "crash", approvedSize |-> 100000, exitPrice |-> 80] }

LearningStrategies == { "momentum_follow_v1", "gamma_scalp_v1" }

\* the outcomes of momentum_follow_v1 a long run starts with: runs of losses
\* and wins chosen so that the win rate keeps moving by more than 0.05
ScheduledRuns ==
  << [win |-> FALSE, n |-> 1], [win |-> TRUE, n |-> 3], [win |-> FALSE, n |-> 6],
     [win |-> TRUE, n |-> 12], [win |-> FALSE, n |-> 23], [win |-> TRUE, n |-> 31],
     [win |-> FALSE, n |-> 40], [win |-> TRUE, n |-> 60], [win |-> FALSE, n |-> 90],
     [win |-> TRUE, n |-> 136], [win |-> FALSE, n |-> 290], [win |-> TRUE, n |-> 312] >>

ScheduleLength == SumSeq([i \in 1..Len(ScheduledRuns) |-> ScheduledRuns[i].n])

\* whether the k-th scheduled outcome is a win
RECURSIVE ScheduledWin(_, _)
ScheduledWin(k, i) ==
  IF k <= ScheduledRuns[i].n THEN ScheduledRuns[i].win
  ELSE ScheduledWin(k - ScheduledRuns[i].n, i + 1)

\* the batches of results OmnicanonSystem.learnFromOutcome is handed in a
\* tick: the fills of one or two signals, and a batch with an unfilled order
LearningBatches(serial) ==
  { <<FilledResult(LearningSignal("momentum_follow_v1", serial), 100)>>,
    <<FilledResult(LearningSignal("momentum_follow_v1", serial), 100),
      FilledResult(LearningSignal("gamma_scalp_v1", serial), 100)>>,
    <<[FilledResult(LearningSignal("gamma_scalp_v1", serial), 100)
         EXCEPT !.success = FALSE, !.order.status = "cancelled"]>> }

\* feature vectors around the thresholds of determineRegimeType: momentum in
\* 1e-4, trend strength and gamma magnitude per mille, implied volatility in
\* 1e-4 (NaN when the surface is empty), vol of vol in 1e-2
RegimeMomenta == { 0 - 300, 0 - 200, 0 - 150, 0 - 100, 0 - 40, 0, 40, 50, 100, 150, 200, 300 }
RegimeTrendStrengths == { 200, 300, 350, 400, 600, 700 }
RegimeVolatilities == { NaN, 1000, 1500, 1800, 2000, 2500, 4000, 4500 }
RegimeVolOfVols == { NaN, 30, 40 }
RegimeGammaMagnitudes == { 700, 800 }
RegimeNetGammas == { 0 - 2000000, 1000000, 2000000 }

\* the vectors createFingerprint extracts from the features given to
\* storePattern and getSimilarPatterns (per mille; the last has the NaN
\* volatility of a series of zero closes), the regimes and the limits
SimilarVectors == { <<0, 500, 1000>>, <<0, 1000, 1000>>, <<0, NaN, 1000>> }
QueryVectors == { <<0, 500, 1000>> }
SimilarRegimes == { [type |-> "trending_bullish"], [type |-> "range_bound"] }
SimilarLimits == 0..3

\* option chains for calculateGravitationalPull: count options on six strikes
\* (90, 92, .. 100) per expiry, with open interest 1 and a gamma that rises,
\* falls, stays or changes sign from option to option
PullProfiles == { "rising", "falling", "level", "alternating" }

PullGamma(profile, i) ==
  CASE profile = "rising" -> 10 + i
    [] profile = "falling" -> 30 - i
    [] profile = "level" -> 20
    [] OTHER -> IF i % 2 = 0 THEN 10 + i ELSE 0 - (10 + i)

PullChain(profile, options) ==
  [i \in 1..options |->
     [strike |-> 90 + 2 * ((i - 1) % 6), expiry |-> 1 + (i - 1) \div 6,
      gamma |-> PullGamma(profile, i), openInterest |-> 1]]

PullChains == { PullChain(profile, options) : profile \in PullProfiles, options \in {0, 4, 10, 11, 12} }

PullSpots == { 85, 90, 93, 95, 100, 105 }

\* the templates adaptParameters is given: the stop, trailing stop and target
\* of gamma_scalp_v1 (0.003, 0.005) and momentum_follow_v1 (0.02, multiple
\* 2.5), of templates without any of them, and of templates added with
\* addTemplate
AdaptTemplates ==
  { [id |-> "template", parameters |-> parameters] :
      parameters \in [stopLoss : {0, 300, 1000}, trailingStop : {0, 2000},
                      targetProfit : {0, 500}, targetMultiple : {0, 25}] }

\* the regimes adaptParameters is given: one per volatility regime
AdaptRegimes ==
  { [type |-> "range_bound", characteristics |-> [volatility |-> volatility]] :
      volatility \in {"low", "normal", "elevated", "high", "extreme"} }

----------------------------------------------------------------------------
(* Initial states *)

InitRG ==
  /\ limits = DefaultLimits
  /\ killSwitchActive = FALSE
  /\ killSwitchReason = <<>>
  /\ dailyPnL = 0
  /\ peakEquity = 0

InitSys ==
  /\ portfolio = initializePortfolio
  /\ ticks = 0

InitObs ==
  /\ op = "new"
  /\ killBefore = FALSE
  /\ argPortfolio = initializePortfolio
  /\ argSignals = <<>>
  /\ approved = <<>>
  /\ executionResults = <<>>

InitCB(cap) ==
  /\ capacity = cap
  /\ items = newCircularBuffer(cap).items
  /\ head = 0
  /\ tail = 0
  /\ count = 0
  /\ added = <<>>

InitFM(cap) ==
  /\ patterns = <<>>
  /\ fingerprints = <<>>
  /\ recentPatterns = <<>>
  /\ memIndex = emptyIndex
  /\ maxPatterns = cap
  /\ now = 0
  /\ generated = 0
  /\ imports = 0
  /\ exported = <<>>
  /\ snapshot = newFractalMemory(cap)
  /\ trip = "none"

InitTK(learning) ==
  /\ learningEnabled = learning
  /\ lastState = <<>>
  /\ inflight = {}
  /\ resolved = {}
  /\ regimeHistory = <<>>
  /\ tradeOutcomes = <<>>

InitSP ==
  /\ activeStrategies = <<>>
  /\ activationRegime = <<>>
  /\ returned = <<>>
  /\ activationArgs = <<>>

DefaultMaxStrategies == 10

InitPL(k) ==
  /\ maxStrategies = k
  /\ perception = [priceBuffer |-> <<>>, volatilityBuffer |-> <<>>]
  /\ controller = [momentum |-> <<>>, volatility |-> <<>>, history |-> <<>>]
  /\ state = <<>>
  /\ twinState = <<>>
  /\ flatTicks = 0
  /\ variedTicks = 0

newStats == [totalOrders |-> 0, filledOrders |-> 0, cancelledOrders |-> 0,
             rejectedOrders |-> 0]

InitWS(attempts) ==
  /\ ws = newWebSocketService(attempts).ws
  /\ sockets = newWebSocketService(attempts).sockets
  /\ isConnecting = newWebSocketService(attempts).isConnecting
  /\ shouldReconnect = newWebSocketService(attempts).shouldReconnect
  /\ reconnectCount = newWebSocketService(attempts).reconnectCount
  /\ reconnectTimer = newWebSocketService(attempts).reconnectTimer
  /\ timerPending = newWebSocketService(attempts).timerPending
  /\ heartbeatTimer = newWebSocketService(attempts).heartbeatTimer
  /\ reconnectAttempts = newWebSocketService(attempts).reconnectAttempts
  /\ fired = 0

InitFN ==
  /\ callArgs = <<>>
  /\ callResult = <<>>

InitEE ==
  /\ pendingOrders = {}
  /\ stats = newStats
  /\ executions = {}
  /\ batches = {}
  /\ cancelled = {}
  /\ engineCalls = 0

InitLE ==
  /\ learningProgress = newLearningEngine.learningProgress
  /\ strategyEvolutions = newLearningEngine.strategyEvolutions
  /\ featureImportance = newLearningEngine.featureImportance
  /\ learningCalls = 0
  /\ scheduled = 0

\* op names the last operation, killBefore the kill switch when it began; the
\* arguments and results kept are those of the last operation
Observe(name, pf, signals, result, results) ==
  /\ op' = name
  /\ killBefore' = killSwitchActive
  /\ argPortfolio' = pf
  /\ argSignals' = signals
  /\ approved' = result
  /\ executionResults' = results

ObserveOnly(name) == Observe(name, initializePortfolio, <<>>, <<>>, <<>>)

----------------------------------------------------------------------------
(* Operations of a RiskGovernance called directly *)

SetRG(rg) ==
  /\ killSwitchActive' = rg.killSwitchActive
  /\ killSwitchReason' = rg.killSwitchReason
  /\ dailyPnL' = rg.dailyPnL
  /\ peakEquity' = rg.peakEquity

FilterSignals(signals, pf, features) ==
  LET r == filterSignals(rgState, limits, signals, pf, features)
  IN  /\ SetRG(r.rg)
      /\ Observe("filterSignals", pf, signals, r.result, <<>>)
      /\ UNCHANGED <<limits, sysVars, cbVars, fmVars, tkVars, spVars, plVars, eeVars, leVars, wsVars, fnVars>>

ActivateKillSwitch(reason) ==
  /\ SetRG(activateKillSwitch(rgState, reason))
  /\ ObserveOnly("activateKillSwitch")
  /\ UNCHANGED <<limits, sysVars, cbVars, fmVars, tkVars, spVars, plVars, eeVars, leVars, wsVars, fnVars>>

DeactivateKillSwitch ==
  /\ SetRG(deactivateKillSwitch(rgState))
  /\ ObserveOnly("deactivateKillSwitch")
  /\ UNCHANGED <<limits, sysVars, cbVars, fmVars, tkVars, spVars, plVars, eeVars, leVars, wsVars, fnVars>>

ResetDailyRisk ==
  /\ SetRG(resetDailyRisk(rgState))
  /\ ObserveOnly("resetDailyRisk")
  /\ UNCHANGED <<limits, sysVars, cbVars, fmVars, tkVars, spVars, plVars, eeVars, leVars, wsVars, fnVars>>

UpdateLimits(newLimits) ==
  /\ limits' = updateLimits(limits, newLimits)
  /\ ObserveOnly("updateLimits")
  /\ UNCHANGED <<killSwitchActive, killSwitchReason, dailyPnL, peakEquity, sysVars, cbVars, fmVars, tkVars,
                 spVars, plVars, eeVars, leVars, wsVars, fnVars>>

----------------------------------------------------------------------------
(* Operations of an OmnicanonSystem *)

\* the fields of the LearningEngine, as one record
leState ==
  [tradeOutcomes |-> tradeOutcomes, learningProgress |-> learningProgress,
   strategyEvolutions |-> strategyEvolutions, featureImportance |-> featureImportance]

SetLE(le) ==
  /\ tradeOutcomes' = le.tradeOutcomes
  /\ learningProgress' = le.learningProgress
  /\ strategyEvolutions' = le.strategyEvolutions
  /\ featureImportance' = le.featureImportance

SetFM(fm) ==
  /\ patterns' = fm.patterns
  /\ fingerprints' = fm.fingerprints
  /\ recentPatterns' = fm.recentPatterns
  /\ memIndex' = fm.index

\* phases 7 to 9 of rootFunction and the state it resolves with: the
\* portfolio update, learning when it is enabled, and lastState; regime is
\* the regime phase 2 classified, history the regimeHistory when the phases
\* begin and time what Date.now() reads (the clock of the memory operations,
\* which the calls of a tick read without moving it).  What the phases
\* compute is bound by \E over a one-element set, which computes it once
Finish(id, regime, history, features, results, time) ==
  \E l \in {IF learningEnabled
            THEN learnFromOutcome([learnState EXCEPT !.regimeHistory = history],
                                  results, features, lastState, time)
            ELSE [learnState EXCEPT !.regimeHistory = history]},
     updated \in {updatePortfolio(portfolio, results)} :
      /\ portfolio' = updated
      /\ SetFM(l.fm)
      /\ generated' = l.generated
      /\ tradeOutcomes' = l.tradeOutcomes
      /\ regimeHistory' = l.regimeHistory
      /\ lastState' = <<[regime |-> regime, tick |-> id]>>
      /\ resolved' = resolved \cup {id}

\* rootFunction run with nothing else scheduled between its phases; the
\* perception, coherence and strategy phases are represented by their
\* outputs, the features and the signals
RootFunctionFrom(signals, features, randomFactors, actualSlippage) ==
  LET c == classifyRegime(regimeHistory, features)
      r == filterSignals(rgState, limits, signals, portfolio, features)
      results == execute(r.result, randomFactors, actualSlippage)
  IN  /\ SetRG(r.rg)
      /\ Finish(ticks + 1, c.regime, c.regimeHistory, features, results, now)
      /\ ticks' = ticks + 1
      /\ Observe("rootFunction", portfolio, signals, r.result, results)
      /\ UNCHANGED <<limits, cbVars, maxPatterns, now, imports, exported, snapshot, trip,
                     learningEnabled, inflight, eeVars, leVars, wsVars, fnVars>>

RootFunction(signals, features, randomFactors, actualSlippage) ==
  /\ ticks < MaxTicks
  /\ RootFunctionFrom(signals, features, randomFactors, actualSlippage)
  /\ UNCHANGED <<spVars, plVars>>

\* a call of rootFunction up to its await: phases 1 to 5 and the start of
\* execute.  With approved signals the call is suspended at the latency wait
\* of the first; with none the await resumes before any other task runs
Invoke(signals, features) ==
  LET c == classifyRegime(regimeHistory, features)
      r == filterSignals(rgState, limits, signals, portfolio, features)
      id == ticks + 1
  IN  /\ ticks < MaxCalls
      /\ Cardinality(inflight) < MaxInFlight
      /\ SetRG(r.rg)
      /\ ticks' = id
      /\ Observe("rootFunction", portfolio, signals, r.result, <<>>)
      /\ IF r.result = <<>>
         THEN /\ Finish(id, c.regime, c.regimeHistory, features, <<>>, now)
              /\ UNCHANGED inflight
         ELSE /\ inflight' = inflight \cup
                   {[id |-> id, regime |-> c.regime, features |-> features,
                     pending |-> r.result, results |-> <<>>]}
              /\ regimeHistory' = c.regimeHistory
              /\ UNCHANGED <<portfolio, patterns, fingerprints, recentPatterns, memIndex,
                             generated, tradeOutcomes, lastState, resolved>>
      /\ UNCHANGED <<limits, cbVars, maxPatterns, now, imports, exported, snapshot, trip,
                     learningEnabled, spVars, plVars, eeVars, leVars, wsVars, fnVars>>

\* the latency timer of a suspended call fires: its first pending signal is
\* executed, and either the next latency wait begins or execute returns and
\* the call runs its remaining phases and resolves
Resume(inv, randomFactor, actualSlippage) ==
  \E results \in {Append(inv.results,
                          executeSignal(Head(inv.pending), randomFactor, actualSlippage))},
     rest \in {signalsLeft(inv.pending)} :
      /\ inv \in inflight
      /\ Len(inv.results) < MaxSignals
      /\ Observe("simulateExecution", portfolio, <<>>, <<>>, results)
      /\ IF rest # <<>>
         THEN /\ inflight' = (inflight \ {inv})
                   \cup {[inv EXCEPT !.pending = rest, !.results = results]}
              /\ UNCHANGED <<portfolio, patterns, fingerprints, recentPatterns, memIndex,
                             generated, tradeOutcomes, lastState, resolved,
                             regimeHistory>>
         ELSE /\ inflight' = inflight \ {inv}
              /\ Finish(inv.id, inv.regime, regimeHistory, inv.features, results, now)
      /\ UNCHANGED <<rgVars, ticks, cbVars, maxPatterns, now, imports, exported, snapshot, trip,
                     learningEnabled, spVars, plVars, eeVars, leVars, wsVars, fnVars>>

\* OmnicanonSystem.reset: the governance object, the regime history and the
\* suspended calls are not among what it resets
Reset ==
  /\ portfolio' = initializePortfolio
  /\ SetLE(resetLearning(leState))
  /\ SetFM(clearMemory(fmState))
  /\ lastState' = <<>>
  /\ ObserveOnly("reset")
  /\ UNCHANGED <<rgVars, wsVars, fnVars, ticks, cbVars, maxPatterns, now, generated, imports, exported,
                 snapshot, trip, learningEnabled, inflight, resolved, regimeHistory,
                 spVars, plVars, eeVars, learningCalls, scheduled>>

\* rootFunction on a raw bundle: phases 1 to 4 computed from the bundle, then
\* the phases of RootFunctionFrom.  draw is what uuidv4() and Math.random()
\* return in this system outside the execution simulator, twinDraw what they
\* return in a second system constructed alike and fed the same bundles with
\* the same execution draws
PipelineTick(rawData, randomFactors, actualSlippage, draw, twinDraw) ==
  \* phase 1: perception
  \E processed \in {process(perception, rawData)} :
  \* phase 2: the regime, the preliminary activation and the coherence
  \E c \in {classifyPerceived(controller, processed.structuralFeatures)},
     scores \in {strategyScores(processed.structuralFeatures)} :
  \E preliminary \in {activateStrategies(activeStrategies, scores, c.regime,
                                          PreliminaryCoherence)} :
  \E preliminarySignals \in {generateSignals(preliminary.returned,
                                             processed.structuralFeatures, c.regime)} :
  \E coherenceScore \in {calculateCoherence(c.mc, processed.structuralFeatures, c.regime,
                                            preliminary.returned, preliminarySignals)} :
  \* phase 3: the final activation
  \E final \in {activateStrategies(preliminary.activeStrategies, scores, c.regime,
                                    coherenceScore)} :
  \* phase 4: the signals
  \E signals \in {generateSignals(final.returned, processed.structuralFeatures, c.regime)} :
  \E p \in {perceived(processed, c, scores, coherenceScore, final, signals)} :
    /\ IF variedTicks = 0 /\ rawData = Flat
       THEN /\ flatTicks < MaxFlatTicks
            /\ flatTicks' = flatTicks + 1
            /\ UNCHANGED variedTicks
       ELSE /\ variedTicks < MaxVariedTicks
            /\ variedTicks' = variedTicks + 1
            /\ UNCHANGED flatTicks
    /\ perception' = p.pm
    /\ controller' = p.mc
    /\ activeStrategies' = p.map
    /\ returned' = p.activeStrategies
    /\ activationRegime' = <<p.regime>>
    /\ activationArgs' = <<[structuralFeatures |-> p.scores, coherence |-> p.coherenceScore]>>
    /\ state' = <<systemState(p, draw)>>
    /\ twinState' = <<systemState(p, twinDraw)>>
    /\ RootFunctionFrom(p.signals,
                        [regime |-> p.structuralFeatures.volatilityRegime.regime,
                         market |-> p.regime.type],
                        randomFactors, actualSlippage)
    /\ UNCHANGED maxStrategies

----------------------------------------------------------------------------
(* Operations of an ExecutionEngine called directly *)

\* execute up to its first await: with no signal it returns at once; else
\* executeSignal creates the order of the first signal, puts it into
\* pendingOrders and simulateExecution starts the latency wait
Execute(approvedSignals) ==
  LET id == engineCalls + 1
      order == orderOf(Head(approvedSignals), <<id, 1>>)
  IN  /\ engineCalls < MaxEngineCalls
      /\ engineCalls' = id
      /\ IF approvedSignals = <<>>
         THEN /\ batches' = batches \cup {[id |-> id, results |-> <<>>]}
              /\ UNCHANGED <<pendingOrders, executions>>
         ELSE /\ pendingOrders' = pendingOrders \cup {order}
              /\ executions' = executions \cup
                   {[id |-> id, pending |-> approvedSignals, results |-> <<>>,
                     order |-> order]}
              /\ UNCHANGED batches
      /\ ObserveOnly("execute")
      /\ UNCHANGED <<rgVars, sysVars, cbVars, fmVars, tkVars, spVars, plVars, leVars, wsVars, fnVars, stats,
                     cancelled>>

\* the latency timer of a suspended execute call fires: simulateExecution
\* returns the executed order, executeSignal deletes the order from
\* pendingOrders and returns the result, execute pushes it and updates the
\* stats, and either executeSignal starts on the next signal or execute
\* returns the batch
LatencyOver(e, randomFactor, actualSlippage) ==
  \E result \in {resultOf(e.order, Head(e.pending), randomFactor, actualSlippage)},
     rest \in {Tail(e.pending)} :
    LET results == Append(e.results, result)
        order == orderOf(Head(rest), <<e.id, Len(results) + 1>>)
        pendingLeft == {o \in pendingOrders : o.id # e.order.id}
    IN  /\ e \in executions
        /\ stats' = updateStats(stats, result)
        /\ IF rest = <<>>
           THEN /\ pendingOrders' = pendingLeft
                /\ executions' = executions \ {e}
                /\ batches' = batches \cup {[id |-> e.id, results |-> results]}
           ELSE /\ pendingOrders' = pendingLeft \cup {order}
                /\ executions' = (executions \ {e}) \cup
                     {[e EXCEPT !.pending = rest, !.results = results, !.order = order]}
                /\ UNCHANGED batches
        /\ ObserveOnly("simulateExecution")
        /\ UNCHANGED <<rgVars, sysVars, cbVars, fmVars, tkVars, spVars, plVars, leVars, wsVars, fnVars, cancelled,
                       engineCalls>>

\* what cancelling does to the order object, which the suspended
\* executeSignal and simulateExecution calls hold as well
markCancelled(ids) ==
  {IF e.order.id \in ids THEN [e EXCEPT !.order.status = "cancelled"] ELSE e :
     e \in executions}

\* cancelOrder(orderId); false is returned for an id that is not pending
CancelOrder(orderId) ==
  /\ IF \E o \in pendingOrders : o.id = orderId /\ cancellable(o)
     THEN /\ pendingOrders' = {o \in pendingOrders : o.id # orderId}
          /\ executions' = markCancelled({orderId})
          /\ stats' = [stats EXCEPT !.cancelledOrders = @ + 1]
          /\ cancelled' = cancelled \cup {orderId}
     ELSE UNCHANGED <<pendingOrders, executions, stats, cancelled>>
  /\ ObserveOnly("cancelOrder")
  /\ UNCHANGED <<rgVars, sysVars, cbVars, fmVars, tkVars, spVars, plVars, leVars, wsVars, fnVars, batches,
                 engineCalls>>

CancelAllPendingOrders ==
  LET ids == {o.id : o \in {q \in pendingOrders : cancellable(q)}}
  IN  /\ pendingOrders' = {}
      /\ executions' = markCancelled(ids)
      /\ stats' = [stats EXCEPT !.cancelledOrders = @ + Cardinality(ids)]
      /\ cancelled' = cancelled \cup ids
      /\ ObserveOnly("cancelAllPendingOrders")
      /\ UNCHANGED <<rgVars, sysVars, cbVars, fmVars, tkVars, spVars, plVars, leVars, wsVars, fnVars, batches,
                     engineCalls>>

ResetStats ==
  /\ stats' = newStats
  /\ ObserveOnly("resetStats")
  /\ UNCHANGED <<rgVars, sysVars, cbVars, fmVars, tkVars, spVars, plVars, leVars, wsVars, fnVars, pendingOrders,
                 executions, batches, cancelled, engineCalls>>

----------------------------------------------------------------------------
(* Operations of a LearningEngine *)

\* analyzeOutcome(executionResult, entryFeatures, exitFeatures, signal); the
\* clock moves on with every call
AnalyzeOutcome(executionResult, entryFeatures, exitFeatures, signal) ==
  \E outcome \in {tradeOutcome(executionResult, entryFeatures, exitFeatures, signal)} :
  \E performance \in {strategyPerformance(addOutcome(tradeOutcomes, outcome),
                                          outcome.strategyId)} :
    /\ SetLE(recordOutcome(leState, outcome, entryFeatures, performance, now))
    /\ now' = now + 1
    /\ ObserveOnly("analyzeOutcome")
    /\ UNCHANGED <<rgVars, wsVars, fnVars, sysVars, cbVars, patterns, fingerprints, recentPatterns,
                   memIndex, maxPatterns, generated, imports, exported, snapshot, trip,
                   learningEnabled, lastState, inflight, resolved, regimeHistory,
                   spVars, plVars, eeVars>>

\* the next outcome of the scheduled run
AnalyzeScheduled ==
  /\ learningCalls = 0
  /\ scheduled < ScheduleLength
  /\ scheduled' = scheduled + 1
  /\ UNCHANGED learningCalls
  /\ AnalyzeOutcome(FilledResult(LearningSignal("momentum_follow_v1", scheduled + 1), 100),
                    LearningFeatures(100, TRUE),
                    LearningFeatures(IF ScheduledWin(scheduled + 1, 1) THEN 103 ELSE 97, TRUE),
                    LearningSignal("momentum_follow_v1", scheduled + 1))

\* a call after the scheduled run, or instead of it
AnalyzeAny(strategyId, trade, prominent) ==
  /\ scheduled \in {0, ScheduleLength}
  /\ learningCalls < MaxLearningCalls
  /\ learningCalls' = learningCalls + 1
  /\ UNCHANGED scheduled
  /\ AnalyzeOutcome(FilledResult(LearningSignal(strategyId, scheduled + learningCalls + 1),
                                 trade.approvedSize),
                    LearningFeatures(100, prominent),
                    LearningFeatures(trade.exitPrice, prominent),
                    LearningSignal(strategyId, scheduled + learningCalls + 1))

\* phase 8 of rootFunction: OmnicanonSystem.learnFromOutcome(results,
\* features), which analyses every successful result and stores its pattern
LearnFromOutcome(results, features) ==
  /\ scheduled \in {0, ScheduleLength}
  /\ learningCalls < MaxLearningCalls
  /\ \E le \in {learnedFrom(leState, results, features, now)},
        l \in {learnFromOutcome(learnState, results, features, lastState, now)} :
    /\ learningCalls' = learningCalls + 1
    /\ SetLE(le)
    /\ SetFM(l.fm)
    /\ generated' = l.generated
    /\ regimeHistory' = l.regimeHistory
    /\ now' = now + 1
    /\ ObserveOnly("learnFromOutcome")
    /\ UNCHANGED <<rgVars, wsVars, fnVars, sysVars, cbVars, maxPatterns, imports, exported, snapshot, trip,
                   learningEnabled, lastState, inflight, resolved, spVars, plVars, eeVars,
                   scheduled>>

\* LearningEngine.reset
ResetLearning ==
  /\ learningCalls < MaxLearningCalls
  /\ learningCalls' = learningCalls + 1
  /\ SetLE(resetLearning(leState))
  /\ ObserveOnly("resetLearning")
  /\ UNCHANGED <<rgVars, wsVars, fnVars, sysVars, cbVars, fmVars, learningEnabled, lastState, inflight,
                 resolved, regimeHistory, spVars, plVars, eeVars, scheduled>>

----------------------------------------------------------------------------
(* Operations and events of a WebSocketService *)

SetWS(w) ==
  /\ ws' = w.ws
  /\ sockets' = w.sockets
  /\ isConnecting' = w.isConnecting
  /\ shouldReconnect' = w.shouldReconnect
  /\ reconnectCount' = w.reconnectCount
  /\ reconnectTimer' = w.reconnectTimer
  /\ timerPending' = w.timerPending
  /\ heartbeatTimer' = w.heartbeatTimer
  /\ reconnectAttempts' = w.reconnectAttempts

\* what a step of the service leaves alone
ServiceFrame ==
  UNCHANGED <<rgVars, sysVars, cbVars, fmVars, tkVars, spVars, plVars, eeVars, leVars,
              fnVars>>

\* connect() called by the application
Connect ==
  /\ Len(sockets) < MaxSockets
  /\ SetWS(connect(wsState))
  /\ fired' = 0
  /\ ObserveOnly("connect")
  /\ ServiceFrame

\* disconnect() called by the application
Disconnect ==
  /\ SetWS(disconnect(wsState))
  /\ fired' = 0
  /\ ObserveOnly("disconnect")
  /\ ServiceFrame

\* the reconnect timer fires and its callback calls connect()
ReconnectTimerFires ==
  /\ timerPending
  /\ Len(sockets) < MaxSockets
  /\ SetWS(connect([wsState EXCEPT !.timerPending = FALSE]))
  /\ fired' = 0
  /\ ObserveOnly("reconnectTimer")
  /\ ServiceFrame

\* the connection of socket is established: readyState becomes OPEN and the
\* open event runs onopen
OnOpen(socket) ==
  /\ sockets[socket] = "CONNECTING"
  /\ SetWS(onopen([wsState EXCEPT !.sockets[socket] = "OPEN"]))
  /\ fired' = socket
  /\ ObserveOnly("onopen")
  /\ ServiceFrame

\* the connection of socket is closed cleanly, by the server or after
\* close(): readyState becomes CLOSED and the close event runs onclose
OnClose(socket) ==
  /\ sockets[socket] \in {"CONNECTING", "OPEN", "CLOSING"}
  /\ SetWS(onclose([wsState EXCEPT !.sockets[socket] = "CLOSED"]))
  /\ fired' = socket
  /\ ObserveOnly("onclose")
  /\ ServiceFrame

\* the connection of socket fails: readyState becomes CLOSED and the same
\* task fires the error event, whose handler only notifies, and the close
\* event
OnError(socket) ==
  /\ sockets[socket] \in {"CONNECTING", "OPEN"}
  /\ SetWS(onclose([wsState EXCEPT !.sockets[socket] = "CLOSED"]))
  /\ fired' = socket
  /\ ObserveOnly("onerror")
  /\ ServiceFrame

----------------------------------------------------------------------------
(* MetaController.determineRegimeType applied on its own *)

\* what a call of a function leaves alone
CallFrame ==
  UNCHANGED <<rgVars, sysVars, cbVars, fmVars, tkVars, spVars, plVars, eeVars, leVars,
              wsVars>>

DetermineRegimeType(features, structuralFeatures) ==
  /\ callResult = <<>>
  /\ callResult' = <<determineRegimeType(features, structuralFeatures)>>
  /\ UNCHANGED callArgs
  /\ ObserveOnly("determineRegimeType")
  /\ CallFrame

----------------------------------------------------------------------------
(* PerceptionMatrix.calculateGravitationalPull applied on its own *)

\* process up to the gravitational pull: the gamma surface of the chain and
\* the pull it exerts at the spot price
CalculateGravitationalPull(optionsChain, spotPrice) ==
  /\ callResult = <<>>
  /\ \E gammaSurface \in {calculateGammaSurface(optionsChain, spotPrice)} :
       callResult' = <<gammaSurface, calculateGravitationalPull(gammaSurface, spotPrice)>>
  /\ UNCHANGED callArgs
  /\ ObserveOnly("calculateGravitationalPull")
  /\ CallFrame

----------------------------------------------------------------------------
(* StrategyPool.adaptParameters applied on its own *)

AdaptParameters(template, regime) ==
  /\ callResult = <<>>
  /\ callResult' = <<adaptParameters(template, regime)>>
  /\ UNCHANGED callArgs
  /\ ObserveOnly("adaptParameters")
  /\ CallFrame

----------------------------------------------------------------------------
(* Operations of a CircularBuffer *)

SetCB(b) ==
  /\ items' = b.items
  /\ head' = b.head
  /\ tail' = b.tail
  /\ count' = b.count

Add(item) ==
  /\ Len(added) < MaxAdds
  /\ SetCB(add(cbState, item))
  /\ added' = Append(added, item)
  /\ ObserveOnly("add")
  /\ UNCHANGED <<capacity, rgVars, sysVars, fmVars, tkVars, spVars, plVars, eeVars, leVars, wsVars, fnVars>>

Clear ==
  /\ SetCB(clear(cbState))
  /\ added' = <<>>
  /\ ObserveOnly("clear")
  /\ UNCHANGED <<capacity, rgVars, sysVars, fmVars, tkVars, spVars, plVars, eeVars, leVars, wsVars, fnVars>>

----------------------------------------------------------------------------
(* Operations of a FractalMemory *)

\* generatePatternId gives an id no earlier call gave: the ids are numbered
StorePattern(input, steps) ==
  LET fingerprintTime == now + steps[1]
      patternTime == fingerprintTime + steps[2]
  IN  /\ generated + imports < MaxMemoryCalls
      /\ SetFM(storePattern(fmState, generated + 1, "f", input.outcome, input.regime,
                            fingerprintTime, patternTime))
      /\ now' = patternTime
      /\ generated' = generated + 1
      /\ trip' = "none"
      /\ ObserveOnly("storePattern")
      /\ UNCHANGED <<maxPatterns, imports, exported, snapshot, rgVars, sysVars, cbVars, tkVars,
                     spVars, plVars, eeVars, leVars, wsVars, fnVars>>

ExportPatterns ==
  /\ exported' = exportPatterns(fmState)
  /\ snapshot' = fmState
  /\ trip' = IF imports = 0 THEN "exported" ELSE "none"
  /\ ObserveOnly("exportPatterns")
  /\ UNCHANGED <<patterns, fingerprints, recentPatterns, memIndex, maxPatterns,
                 now, generated, imports, rgVars, sysVars, cbVars, tkVars, spVars, plVars, eeVars, leVars, wsVars, fnVars>>

ClearMemory ==
  /\ SetFM(clearMemory(fmState))
  /\ trip' = IF trip = "exported" THEN "cleared" ELSE "none"
  /\ ObserveOnly("clear")
  /\ UNCHANGED <<maxPatterns, now, generated, imports, exported, snapshot,
                 rgVars, sysVars, cbVars, tkVars, spVars, plVars, eeVars, leVars, wsVars, fnVars>>

ImportPatterns(list) ==
  /\ generated + imports < MaxMemoryCalls
  /\ SetFM(importPatterns(fmState, list))
  /\ imports' = imports + 1
  /\ trip' = IF trip = "cleared" /\ list = exported THEN "imported" ELSE "none"
  /\ ObserveOnly("importPatterns")
  /\ UNCHANGED <<maxPatterns, now, generated, exported, snapshot, rgVars, sysVars, cbVars, tkVars,
                 spVars, plVars, eeVars, leVars, wsVars, fnVars>>

----------------------------------------------------------------------------
(* Operations of a FractalMemory that is queried *)

\* storePattern given features with the vector extracted, both Date.now()
\* calls reading the same millisecond
StoreVector(extracted, regime) ==
  /\ generated + imports < MaxSimilarCalls
  /\ SetFM(storePattern(fmState, generated + 1, normalize(extracted), [pnl |-> 5],
                        regime, now, now))
  /\ generated' = generated + 1
  /\ trip' = "none"
  /\ ObserveOnly("storePattern")
  /\ UNCHANGED <<maxPatterns, now, imports, exported, snapshot, rgVars, sysVars, cbVars,
                 tkVars, spVars, plVars, eeVars, leVars, wsVars, fnVars>>

GetSimilarPatterns(features, regime, limit) ==
  /\ \E result \in getSimilarPatterns(fmState, features, regime, limit) :
       callResult' = result
  /\ callArgs' = <<features, regime, limit>>
  /\ ObserveOnly("getSimilarPatterns")
  /\ UNCHANGED <<rgVars, sysVars, cbVars, fmVars, tkVars, spVars, plVars, eeVars, leVars,
                 wsVars>>

----------------------------------------------------------------------------
(* Operations of a StrategyPool *)

ActivateStrategies(structuralFeatures, regime, coherence) ==
  LET a == activateStrategies(activeStrategies, structuralFeatures, regime, coherence)
  IN  /\ activeStrategies' = a.activeStrategies
      /\ returned' = a.returned
      /\ activationRegime' = <<regime>>
      /\ activationArgs' =
           <<[structuralFeatures |-> structuralFeatures, coherence |-> coherence]>>
      /\ ObserveOnly("activateStrategies")
      /\ UNCHANGED <<rgVars, sysVars, cbVars, fmVars, tkVars, plVars, eeVars, leVars, wsVars, fnVars>>

----------------------------------------------------------------------------
(* Specifications *)

\* a RiskGovernance object under any sequence of calls of its public methods
Init ==
  InitRG /\ InitSys /\ InitObs /\ InitCB(1) /\ InitFM(DefaultMaxPatterns) /\ InitTK(TRUE)
    /\ InitSP /\ InitPL(DefaultMaxStrategies) /\ InitEE /\ InitLE /\ InitWS(DefaultReconnectAttempts) /\ InitFN

Next ==
  \/ \E c \in DirectCalls : FilterSignals(c.signals, c.pf, c.features)
  \/ \E reason \in CallerReasons : ActivateKillSwitch(reason)
  \/ DeactivateKillSwitch
  \/ ResetDailyRisk
  \/ \E newLimits \in LimitUpdates : UpdateLimits(newLimits)

Spec == Init /\ [][Next]_vars

\* an OmnicanonSystem under its public methods
NextSys ==
  \/ \E signals \in SysSignalLists, randomFactors \in [1..MaxSignals -> RandomFactors],
        slip \in Slippages :
       RootFunction(signals, Calm, randomFactors, slip)
  \/ Reset
  \/ DeactivateKillSwitch

SpecSys == Init /\ [][NextSys]_vars

\* the governance object of an OmnicanonSystem, reached both through the
\* system and through its own public methods
LifePortfolios ==
  { Pf(100000, 0, 50000, 0, <<>>), Pf(80000, 0, 50000, 0, <<>>),
    Pf(100000, 0, 50000, 0 - 6000, <<>>), Pf(80000, 0, 50000, 0 - 6000, <<>>) }

NextLife ==
  \/ \E signals \in {<<>>, <<BaseSignals[1]>>}, slip \in Slippages :
       RootFunction(signals, Calm, [i \in 1..MaxSignals |-> 900], slip)
  \/ Reset
  \/ DeactivateKillSwitch
  \/ \E pf \in LifePortfolios : FilterSignals(<<BaseSignals[1]>>, pf, Normal)
  \/ \E reason \in CallerReasons : ActivateKillSwitch(reason)
  \/ ResetDailyRisk
  \/ \E newLimits \in LimitUpdates : UpdateLimits(newLimits)

SpecLife == Init /\ [][NextLife]_vars

\* a CircularBuffer under add and clear
InitBuffer ==
  InitRG /\ InitSys /\ InitObs /\ InitFM(DefaultMaxPatterns) /\ InitTK(TRUE)
    /\ InitSP /\ InitPL(DefaultMaxStrategies) /\ InitEE /\ InitLE /\ InitWS(DefaultReconnectAttempts) /\ InitFN
    /\ \E cap \in 1..MaxCapacity : InitCB(cap)

NextBuffer ==
  \/ \E item \in 0..(MaxAdds - 1) : Add(item)
  \/ Clear

SpecBuffer == InitBuffer /\ [][NextBuffer]_vars

\* a FractalMemory under storePattern, exportPatterns, importPatterns and clear
InitMemory ==
  InitRG /\ InitSys /\ InitObs /\ InitCB(1) /\ InitTK(TRUE)
    /\ InitSP /\ InitPL(DefaultMaxStrategies) /\ InitEE /\ InitLE /\ InitWS(DefaultReconnectAttempts) /\ InitFN
    /\ \E cap \in 1..MaxMemoryCapacity : InitFM(cap)

\* the lists handed to importPatterns: the last export, a stored pattern
\* again, and one or two foreign patterns
ImportLists ==
  {exported}
    \cup {<<patterns[i]>> : i \in 1..Len(patterns)}
    \cup {<<p>> : p \in ForeignPatterns}
    \cup {<<p, q>> : p \in ForeignPatterns, q \in ForeignPatterns}

NextMemory ==
  \/ \E input \in StoreInputs, steps \in ClockSteps : StorePattern(input, steps)
  \/ ExportPatterns
  \/ ClearMemory
  \/ \E list \in ImportLists : ImportPatterns(list)

SpecMemory == InitMemory /\ [][NextMemory]_vars

\* an OmnicanonSystem whose rootFunction calls are suspended at their latency
\* waits while timers and callers run on
InitTick ==
  InitRG /\ InitSys /\ InitObs /\ InitCB(1) /\ InitFM(DefaultMaxPatterns)
    /\ InitSP /\ InitPL(DefaultMaxStrategies) /\ InitEE /\ InitLE /\ InitWS(DefaultReconnectAttempts) /\ InitFN
    /\ \E learning \in BOOLEAN : InitTK(learning)

NextTick ==
  \/ \E signals \in TickSignalLists, features \in TickFeatures : Invoke(signals, features)
  \/ \E inv \in inflight, randomFactor \in RandomFactors, slip \in Slippages :
       Resume(inv, randomFactor, slip)
  \/ Reset
  \/ DeactivateKillSwitch

SpecTick == InitTick /\ [][NextTick]_vars

\* the same system, constructed with the default configuration and given
\* the empty bundle or one that leads to two signals, when a latency timer
\* that was set fires: setTimeout runs its callback once the delay is over,
\* and the awaiting call continues from there
TimerFires ==
  \E inv \in inflight, randomFactor \in RandomFactors, slip \in Slippages :
    Resume(inv, randomFactor, slip)

NextTickFair ==
  \/ \E signals \in {<<>>, SubSeq(BaseSignals, 1, 2)} : Invoke(signals, Calm)
  \/ TimerFires
  \/ Reset
  \/ DeactivateKillSwitch

SpecTickFair == Init /\ [][NextTickFair]_vars /\ WF_vars(TimerFires)

\* a StrategyPool under activateStrategies
InitPool ==
  InitRG /\ InitSys /\ InitObs /\ InitCB(1) /\ InitFM(DefaultMaxPatterns) /\ InitTK(TRUE)
    /\ InitSP /\ InitPL(DefaultMaxStrategies) /\ InitEE /\ InitLE /\ InitWS(DefaultReconnectAttempts) /\ InitFN

NextPool ==
  \E structuralFeatures \in PoolFeatures, regime \in PoolRegimes, coherence \in Coherences :
    ActivateStrategies(structuralFeatures, regime, coherence)

SpecPool == InitPool /\ [][NextPool]_vars

\* an OmnicanonSystem constructed with maxStrategies 1 or the default and
\* fed raw bundles: flat ones first, then any
InitPipeline ==
  InitRG /\ InitSys /\ InitObs /\ InitCB(1) /\ InitFM(DefaultMaxPatterns) /\ InitTK(TRUE)
    /\ InitSP /\ InitEE /\ InitLE /\ InitWS(DefaultReconnectAttempts) /\ InitFN
    /\ \E k \in {1, DefaultMaxStrategies} : InitPL(k)

NextPipeline ==
  \E rawData \in Bundles, randomFactor \in RandomFactors, slip \in Slippages,
     draw \in RandomDraws, twinDraw \in RandomDraws :
    PipelineTick(rawData, [i \in 1..MaxSignals |-> randomFactor], slip, draw, twinDraw)

SpecPipeline == InitPipeline /\ [][NextPipeline]_vars

\* an ExecutionEngine under execute, the latency timers of its suspended
\* calls, cancelOrder, cancelAllPendingOrders and resetStats
OrderIds == {<<c, i>> : c \in 1..MaxEngineCalls, i \in 1..MaxSignals}

NextEngine ==
  \/ \E approvedSignals \in EngineBatches : Execute(approvedSignals)
  \/ \E e \in executions, randomFactor \in EngineRandomFactors, slip \in Slippages :
       LatencyOver(e, randomFactor, slip)
  \/ \E orderId \in OrderIds : CancelOrder(orderId)
  \/ CancelAllPendingOrders
  \/ ResetStats

SpecEngine == Init /\ [][NextEngine]_vars

\* a LearningEngine under analyzeOutcome and reset calls and under the
\* learning phase of an OmnicanonSystem, after a long run of outcomes of one
\* strategy or from construction
NextLearning ==
  \/ AnalyzeScheduled
  \/ \E strategyId \in LearningStrategies, trade \in Trades, prominent \in BOOLEAN :
       AnalyzeAny(strategyId, trade, prominent)
  \/ \E results \in LearningBatches(scheduled + learningCalls + 1) :
       LearnFromOutcome(results, LearningFeatures(100, TRUE))
  \/ ResetLearning

SpecLearning == Init /\ [][NextLearning]_vars

\* a WebSocketService with the default number of reconnect attempts or with
\* one attempt, under the calls of the application, the events of its sockets
\* and its reconnect timer
InitSocket ==
  InitRG /\ InitSys /\ InitObs /\ InitCB(1) /\ InitFM(DefaultMaxPatterns) /\ InitTK(TRUE)
    /\ InitSP /\ InitPL(DefaultMaxStrategies) /\ InitEE /\ InitLE /\ InitFN
    /\ \E attempts \in {1, DefaultReconnectAttempts} : InitWS(attempts)

NextSocket ==
  \/ Connect
  \/ Disconnect
  \/ ReconnectTimerFires
  \/ \E socket \in 1..Len(sockets) : OnOpen(socket)
  \/ \E socket \in 1..Len(sockets) : OnClose(socket)
  \/ \E socket \in 1..Len(sockets) : OnError(socket)

SpecSocket == InitSocket /\ [][NextSocket]_vars

\* determineRegimeType about to be applied to one of the feature vectors
\* around its thresholds
InitRegime ==
  InitRG /\ InitSys /\ InitObs /\ InitCB(1) /\ InitFM(DefaultMaxPatterns) /\ InitTK(TRUE)
    /\ InitSP /\ InitPL(DefaultMaxStrategies) /\ InitEE /\ InitLE
    /\ InitWS(DefaultReconnectAttempts)
    /\ \E features \in [momentum : RegimeMomenta, trendStrength : RegimeTrendStrengths,
                         volatility : RegimeVolatilities, volOfVol : RegimeVolOfVols,
                         gammaMagnitude : RegimeGammaMagnitudes],
           gammaSurface \in [netGamma : RegimeNetGammas] :
         callArgs = <<features, [gammaSurface |-> gammaSurface]>>
    /\ callResult = <<>>

NextRegime == DetermineRegimeType(callArgs[1], callArgs[2])

SpecRegime == InitRegime /\ [][NextRegime]_vars

\* a FractalMemory of two or three patterns that is filled by storePattern
\* and by importPatterns of patterns it holds, and queried
InitSimilar ==
  InitRG /\ InitSys /\ InitObs /\ InitCB(1) /\ InitTK(TRUE)
    /\ InitSP /\ InitPL(DefaultMaxStrategies) /\ InitEE /\ InitLE
    /\ InitWS(DefaultReconnectAttempts) /\ InitFN
    /\ \E cap \in MaxMemoryCapacity..(MaxMemoryCapacity + 1) : InitFM(cap)

NextSimilar ==
  \/ \E extracted \in SimilarVectors, regime \in SimilarRegimes :
       StoreVector(extracted, regime)
  \/ \E i \in 1..Len(patterns) :
       generated + imports < MaxSimilarCalls /\ ImportPatterns(<<patterns[i]>>)
  \/ \E features \in QueryVectors, regime \in SimilarRegimes, limit \in SimilarLimits :
       GetSimilarPatterns(features, regime, limit)

SpecSimilar == InitSimilar /\ [][NextSimilar]_vars

\* calculateGravitationalPull about to be applied to the surface of one of
\* the chains at one of the spot prices
InitPull ==
  InitRG /\ InitSys /\ InitObs /\ InitCB(1) /\ InitFM(DefaultMaxPatterns) /\ InitTK(TRUE)
    /\ InitSP /\ InitPL(DefaultMaxStrategies) /\ InitEE /\ InitLE
    /\ InitWS(DefaultReconnectAttempts)
    /\ \E optionsChain \in PullChains, spotPrice \in PullSpots :
         callArgs = <<optionsChain, spotPrice>>
    /\ callResult = <<>>

NextPull == CalculateGravitationalPull(callArgs[1], callArgs[2])

SpecPull == InitPull /\ [][NextPull]_vars

\* adaptParameters about to be applied to one of the templates under one of
\* the regimes
InitAdapt ==
  InitRG /\ InitSys /\ InitObs /\ InitCB(1) /\ InitFM(DefaultMaxPatterns) /\ InitTK(TRUE)
    /\ InitSP /\ InitPL(DefaultMaxStrategies) /\ InitEE /\ InitLE
    /\ InitWS(DefaultReconnectAttempts)
    /\ \E template \in AdaptTemplates, regime \in AdaptRegimes :
         callArgs = <<template, regime>>
    /\ callResult = <<>>

NextAdapt == AdaptParameters(callArgs[1], callArgs[2])

SpecAdapt == InitAdapt /\ [][NextAdapt]_vars

----------------------------------------------------------------------------
(* Properties *)

\* the operations that return a list of approved signals
Filtering == op \in {"filterSignals", "rootFunction"}

\* C1: every filterSignals call made while the kill switch is active returns
\* the empty list, whatever the signals, portfolio and features.
C1_EmptyWhileKilled == (Filtering /\ killBefore) => approved = <<>>

\* a call made under an active kill switch with signals that the same call
\* approves once the switch is cleared
C1_Witness ==
  /\ op = "filterSignals" /\ killBefore /\ killSwitchActive
  /\ approved = <<>>
  /\ filterSignals(deactivateKillSwitch(rgState), limits, argSignals,
                   argPortfolio, Normal).result # <<>>

\* C2: the filterSignals call whose risk-state update trips the kill switch
\* itself returns no approvals.
C2_BreachCallReturnsEmpty ==
  (Filtering /\ ~killBefore /\ killSwitchActive) => approved = <<>>

\* C3: an active kill switch becomes inactive only through
\* deactivateKillSwitch, or through resetDailyRisk when the stored reason
\* contains "daily loss"; ticks, filterSignals, updateLimits, reset and any
\* other resetDailyRisk leave it active.
C3_Lifecycle ==
  [][(killSwitchActive /\ ~killSwitchActive')
       => \/ op' = "deactivateKillSwitch"
          \/ (op' = "resetDailyRisk"
                /\ Includes(killSwitchReason, <<"daily", "loss">>))]_vars

\* resetDailyRisk called on a kill switch whose reason lacks "daily loss"
C3_Witness ==
  /\ op = "resetDailyRisk" /\ killBefore /\ killSwitchActive
  /\ ~Includes(killSwitchReason, <<"daily", "loss">>)

\* C4: when a filterSignals call observes a totalValue more than maxDrawdown
\* (as a fraction of the peak) below the highest totalValue observed, the
\* kill switch is active afterwards with a reason containing "drawdown".
C4_DrawdownReason ==
  (op = "filterSignals" /\ ~killBefore /\ peakEquity > 0
     /\ (peakEquity - argPortfolio.totalValue) * 1000 > limits.maxDrawdown * peakEquity)
    => (killSwitchActive /\ Includes(killSwitchReason, <<"drawdown">>))

\* C5 (as stated): whenever |dailyPnL| exceeds maxDailyLoss * totalValue at a
\* filterSignals call, the kill switch is active when the call returns.
C5_AbsoluteDailyPnL ==
  (op = "filterSignals"
     /\ Abs(argPortfolio.dailyPnL) * 1000 > limits.maxDailyLoss * argPortfolio.totalValue)
    => killSwitchActive

\* C5: whenever dailyPnL is below -maxDailyLoss * totalValue at a
\* filterSignals call, the kill switch is active when the call returns.
C5_DailyLoss ==
  (op = "filterSignals"
     /\ argPortfolio.dailyPnL * 1000 < 0 - (limits.maxDailyLoss * argPortfolio.totalValue))
    => killSwitchActive

\* a call that found the switch inactive and a loss beyond the limit
C5_Witness ==
  /\ op = "filterSignals" /\ ~killBefore /\ killSwitchActive
  /\ argPortfolio.dailyPnL * 1000 < 0 - (limits.maxDailyLoss * argPortfolio.totalValue)

\* C6: every approved signal has 0 < approvedSize <= maxPositionSize *
\* totalValue, for any input signals, portfolio and features.
C6_ApprovedSizeBounds ==
  Filtering =>
    \A i \in 1..Len(approved) :
      /\ approved[i].approvedSize # NaN
      /\ approved[i].approvedSize > 0
      /\ approved[i].approvedSize * 1000 <= limits.maxPositionSize * argPortfolio.totalValue

\* C7: the margin the orchestrator charges for the fills of approved signals
\* never makes portfolio.marginAvailable negative.
C7_MarginNeverNegative == portfolio.marginAvailable >= 0

\* C8: in every list returned by filterSignals each signal has correlation <=
\* maxCorrelation and |gammaExposure| <= 1% of totalValue, and the VaR
\* contributions of the returned signals sum to at most maxPortfolioRisk.
C8_RiskLimitsAtApproval ==
  Filtering =>
    /\ \A i \in 1..Len(approved) :
         /\ approved[i].riskMetrics.correlation <= limits.maxCorrelation * 10
         /\ Abs(approved[i].riskMetrics.gammaExposure) * 100 <= argPortfolio.totalValue
    /\ SumSeq([i \in 1..Len(approved) |-> approved[i].riskMetrics.varContribution])
         <= limits.maxPortfolioRisk * 1000

\* two signals approved against a portfolio holding positions in the
\* direction of one of them
C8_Witness ==
  /\ op = "filterSignals" /\ Len(approved) >= 2
  /\ \E i \in 1..Len(approved) : approved[i].riskMetrics.correlation > 0

\* C9: after N >= capacity appends of 0, 1, ..., N-1 in that order, toArray()
\* is [N - capacity, ..., N - 1] and size() is capacity.
C9_LastCapacityItems ==
  (added = [i \in 1..Len(added) |-> i - 1] /\ Len(added) >= capacity)
    => /\ toArray(cbState) = [k \in 1..capacity |-> Len(added) - capacity + k - 1]
       /\ size(cbState) = capacity

\* more appends than the capacity, so that the oldest items were overwritten
C9_Witness ==
  /\ added = [i \in 1..Len(added) |-> i - 1]
  /\ capacity > 1 /\ Len(added) > capacity

\* the last n elements of s, newest first
LastReversed(s, n) == [k \in 1..n |-> s[Len(s) - (k - 1)]]

\* C10: after any sequence of add and clear, size() <= capacity, get(i) is
\* toArray()[i] for 0 <= i < size() and undefined otherwise, getOldest(n) is
\* the first min(n, size()) elements of toArray() and getRecent(n) the last
\* min(n, size()) elements, newest first.
C10_ReadsAgreeWithToArray ==
  LET arr == toArray(cbState)
  IN  /\ size(cbState) <= capacity
      /\ \A index \in (0 - 1)..(MaxCapacity + 1) :
           get(cbState, index) =
             (IF 0 <= index /\ index < size(cbState) THEN arr[index + 1] ELSE Undefined)
      /\ \A n \in 0..(MaxCapacity + 1) :
           /\ getOldest(cbState, n) = SubSeq(arr, 1, Min2(n, size(cbState)))
           /\ getRecent(cbState, n) = LastReversed(arr, Min2(n, size(cbState)))

\* a full buffer whose oldest items were overwritten and whose head is past
\* slot 0
C10_Witness ==
  /\ op = "add" /\ count = capacity /\ capacity > 1 /\ head > 0
  /\ Len(added) > capacity

\* the ids a map of the index lists, and the ids of the stored patterns
IndexedIds(m) == UNION {{m[i].ids[j] : j \in 1..Len(m[i].ids)} : i \in 1..Len(m)}
StoredIds == {patterns[i].id : i \in 1..Len(patterns)}

\* the number of times id is listed in the buckets of a map
RECURSIVE Occurrences(_, _)
Occurrences(m, id) ==
  IF m = <<>> THEN 0
  ELSE Cardinality({j \in 1..Len(Head(m).ids) : Head(m).ids[j] = id})
         + Occurrences(Tail(m), id)

\* the non-empty buckets of a map, and the elements of a sequence
Buckets(m) == {m[i] : i \in {j \in 1..Len(m) : m[j].ids # <<>>}}
Elements(q) == {q[i] : i \in 1..Len(q)}

\* C11: in every reachable state of a FractalMemory the ids listed in the
\* by-regime, by-outcome and by-timeframe indices are exactly the ids of the
\* stored patterns.
C11_IndicesMatchStore ==
  /\ IndexedIds(memIndex.byRegime) = StoredIds
  /\ IndexedIds(memIndex.byOutcome) = StoredIds
  /\ IndexedIds(memIndex.byTimeframe) = StoredIds

\* C12: after storePattern calls only, the store holds the min(capacity, n)
\* most recently stored patterns and each index lists exactly those.
C12_MostRecentKept ==
  imports = 0 =>
    LET kept == Min2(Len(recentPatterns), maxPatterns)
        newest == (generated - kept + 1)..generated
    IN  /\ Len(patterns) = kept
        /\ StoredIds = newest
        /\ IndexedIds(memIndex.byRegime) = newest
        /\ IndexedIds(memIndex.byOutcome) = newest
        /\ IndexedIds(memIndex.byTimeframe) = newest

\* C13: the id of every stored pattern occurs exactly once across the
\* positive and negative buckets and exactly once across the regime buckets.
C13_ListedExactlyOnce ==
  \A id \in StoredIds :
    /\ Occurrences(memIndex.byOutcome, id) = 1
    /\ Occurrences(memIndex.byRegime, id) = 1

\* C14: exportPatterns, clear, importPatterns of the export, on a memory
\* reached by storePattern calls, gives back the same patterns, fingerprints
\* and index contents.
C14_RoundTripIdentity ==
  trip = "imported" =>
    /\ Elements(patterns) = Elements(snapshot.patterns)
    /\ Elements(fingerprints) = Elements(snapshot.fingerprints)
    /\ Buckets(memIndex.byRegime) = Buckets(snapshot.index.byRegime)
    /\ Buckets(memIndex.byOutcome) = Buckets(snapshot.index.byOutcome)
    /\ Buckets(memIndex.byTimeframe) = Buckets(snapshot.index.byTimeframe)

\* C15: a tick is indivisible: while a rootFunction call is suspended at a
\* latency wait, the only step taken is the resumption of that call; no
\* second call begins and neither reset nor deactivateKillSwitch runs.
C15_TickIndivisible ==
  [][inflight # {} => (op' = "simulateExecution" /\ Cardinality(inflight') <= 1)]_vars

\* C16: the regime is classified exactly once per tick (regimeHistory has one
\* entry per rootFunction call), and the patterns a tick stores carry the
\* regime classified in that tick.
C16_OneClassificationPerTick ==
  [][/\ Len(regimeHistory') = ticks'
     /\ resolved' # resolved =>
          \A i \in 1..Len(patterns') :
            \/ patterns'[i] \in Elements(patterns)
            \/ patterns'[i].regime = lastState'[1].regime]_vars

\* the results of a list with success = true
Succeeded(results) == SelectSeq(results, LAMBDA r : r.success)

\* C17: the portfolio changes only in the mutation step of a tick (and in
\* reset); the step appends one position per successful result, takes the
\* value and fees of the successful fills from cash and half their value from
\* the margin, leaves everything else as it was, and ends with totalValue =
\* cashBalance + sum of size * currentPrice over the positions.
C17_MutationFrame ==
  [][LET fills == Succeeded(executionResults')
         cost == [i \in 1..Len(fills) |->
                    (fills[i].order.filledSize * fills[i].order.avgFillPrice) \div 1000]
         held == portfolio'.positions
     IN  /\ portfolio' # portfolio => (op' = "reset" \/ resolved' # resolved)
         /\ resolved' # resolved =>
              /\ Len(held) = Len(portfolio.positions) + Len(fills)
              /\ SubSeq(held, 1, Len(portfolio.positions)) = portfolio.positions
              /\ portfolio'.cashBalance = portfolio.cashBalance
                   - SumSeq([i \in 1..Len(fills) |-> cost[i] + fills[i].order.fees])
              /\ portfolio'.marginUsed = portfolio.marginUsed
                   + SumSeq([i \in 1..Len(fills) |-> cost[i] \div 2])
              /\ portfolio'.marginAvailable = portfolio.marginAvailable
                   - SumSeq([i \in 1..Len(fills) |-> cost[i] \div 2])
              /\ portfolio'.dailyPnL = portfolio.dailyPnL
              /\ portfolio'.totalValue = portfolio'.cashBalance
                   + SumSeq([i \in 1..Len(held) |->
                               (held[i].size * held[i].currentPrice) \div 1000])]_vars

\* a call that was suspended has resolved after two executions, one filled
\* and one not, and the portfolio holds the position of the filled one
C17_Witness ==
  /\ op = "simulateExecution" /\ inflight = {} /\ Len(executionResults) = 2
  /\ Len(Succeeded(executionResults)) = 1
  /\ portfolio.positions # <<>>
  /\ portfolio.cashBalance < initializePortfolio.cashBalance

\* C18: a tick analyses one outcome and stores one pattern per result with
\* success = true, and none at all when learning is disabled.
C18_LearnsFromFillsOnly ==
  [][resolved' # resolved =>
       LET n == IF learningEnabled
                THEN Cardinality({i \in 1..Len(executionResults') :
                                    executionResults'[i].success})
                ELSE 0
       IN  /\ Len(tradeOutcomes') = Len(tradeOutcomes) + n
           /\ Len(patterns') = Len(patterns) + n
           /\ generated' = generated + n]_vars

\* with learning enabled a call has resolved with a filled and an unfilled
\* result: exactly the filled one was analysed and stored
C18_Witness ==
  /\ learningEnabled /\ op = "simulateExecution" /\ Len(executionResults) = 2
  /\ \E i \in 1..2 : executionResults[i].success
  /\ \E i \in 1..2 : ~executionResults[i].success
  /\ Len(tradeOutcomes) = 1 /\ Len(patterns) = 1 /\ generated = 1

C20_ActiveWithinValidRegimes ==
  \A s \in Elements(getActiveStrategies(activeStrategies)) \cup Elements(returned) :
    activationRegime[1].type \in s.template.validRegimes

\* the templates that pass the regime test and the threshold test of the last
\* activateStrategies call, by their position in the template list
activationScoreOf(i) ==
  calculateActivationScore(templates[i], activationArgs[1].structuralFeatures,
                           activationRegime[1], activationArgs[1].coherence)

PassingTemplates ==
  { i \in 1..Len(templates) :
      /\ activationRegime[1].type \in templates[i].validRegimes
      /\ activationScoreOf(i) >= templates[i].activationThreshold }

ReturnedIds == { returned[j].id : j \in 1..Len(returned) }

C22_ActiveSetWithinMaxStrategies ==
  state # <<>> => Len(state[1].activeStrategies) <= maxStrategies

InUnitInterval(x) == x # NaN /\ 0 <= x /\ x <= 1000

\* C23: each of the five sub-coherence scores lies in [0,1], and
\* coherence.total is 0.30 structural + 0.25 regime + 0.20 temporal
\* + 0.15 fractal + 0.10 convergence and lies in [0,1]
C23_CoherenceWithinUnitInterval ==
  state # <<>> =>
    LET c == state[1].coherenceScore
    IN  /\ InUnitInterval(c.structural)
        /\ InUnitInterval(c.regime)
        /\ InUnitInterval(c.temporal)
        /\ InUnitInterval(c.fractal)
        /\ InUnitInterval(c.convergence)
        /\ InUnitInterval(c.total)
        /\ c.total = (300 * c.structural + 250 * c.regime + 200 * c.temporal
                        + 150 * c.fractal + 100 * c.convergence) \div 1000

\* the system has been fed flat bundles only: empty chain, neutral book,
\* closes of 100
FlatScenario == variedTicks = 0 /\ state # <<>>

C25_TwinSystemsAgree == state = twinState

\* C26: every numeric output of perception is finite, and for an empty
\* option chain the netGamma, maxGamma and minGamma of the gamma surface are 0
C26_PerceptionOutputsFinite ==
  state # <<>> =>
    LET f == state[1].structuralFeatures
    IN  /\ Finite(f.gammaSurface.netGamma)
        /\ Finite(f.gammaSurface.maxGamma)
        /\ Finite(f.gammaSurface.minGamma)
        /\ f.gammaSurface.strikes = <<>> =>
              /\ f.gammaSurface.netGamma = 0
              /\ f.gammaSurface.maxGamma = 0
              /\ f.gammaSurface.minGamma = 0
        /\ Finite(f.volatilityRegime.historicalVol)
        /\ Finite(f.volatilityRegime.impliedVol)
        /\ Finite(f.volatilityRegime.volSpread)
        /\ Finite(f.volatilityRegime.volOfVol)
        /\ Finite(f.priceHistory.momentum)
        /\ Finite(f.priceHistory.trendStrength)
        /\ Finite(f.gammaPull.magnitude)
        /\ Finite(f.liquidityMap.imbalance)

\* C27: every result execute returned carries an order that is filled,
\* partial, cancelled or rejected, its success flag is true exactly when the
\* order is filled, and no order of a returned batch is left in pendingOrders
C27_OrderLifecycle ==
  \A b \in batches :
    /\ \A i \in 1..Len(b.results) :
         /\ b.results[i].order.status \in {"filled", "partial", "cancelled", "rejected"}
         /\ b.results[i].success <=> b.results[i].order.status = "filled"
    /\ \A o \in pendingOrders : o.id[1] # b.id

\* execute has returned a batch of two orders, one partial and one cancelled
\* by the simulation, while another call is still suspended
C27_Witness ==
  /\ \E b \in batches :
       /\ Len(b.results) = 2
       /\ {b.results[i].order.status : i \in 1..2} = {"partial", "cancelled"}
  /\ pendingOrders # {}

\* C28: the fill rate of a market order is always 1, that of a limit order
\* of medium urgency 1, 0.7 or 0 and that of a limit order of low urgency 1,
\* 0.5 or 0, each of these values occurs for some draw, and a medium- or
\* low-urgency limit order can end partial
C28_FillRatesAsListed ==
  \A e \in executions :
    LET signal == Head(e.pending)
        urgency == signal.executionConstraints.urgency
        rates == {simulateFillRate(e.order, signal, r) : r \in EngineRandomFactors}
        statuses == {resultOf(e.order, signal, r, slip).order.status :
                       r \in EngineRandomFactors, slip \in Slippages}
    IN  /\ e.order.type = "market" => rates = {1000}
        /\ (e.order.type = "limit" /\ urgency = "medium") =>
             (rates = {1000, 700, 0} /\ "partial" \in statuses)
        /\ (e.order.type = "limit" /\ urgency = "low") =>
             (rates = {1000, 500, 0} /\ "partial" \in statuses)

\* C29: an order cancelled during its latency wait is never reported as
\* filled and never changes a portfolio updated from the results, and
\* filledOrders + cancelledOrders + rejectedOrders never exceeds totalOrders
C29_CancelledStaysCancelled ==
  /\ \A b \in batches : \A i \in 1..Len(b.results) :
       b.results[i].order.id \in cancelled =>
         /\ b.results[i].order.status # "filled"
         /\ ~b.results[i].success
         /\ updatePortfolio(initializePortfolio, <<b.results[i]>>) = initializePortfolio
  /\ stats.filledOrders + stats.cancelledOrders + stats.rejectedOrders
       <= stats.totalOrders

\* C30: the patterns a tick stores are recorded and indexed under the regime
\* classified in that tick
C30_StoredUnderTickRegime ==
  [][resolved' # resolved =>
       \A i \in 1..Len(patterns') :
         patterns'[i].id > generated =>
           /\ patterns'[i].regime = lastState'[1].regime
           /\ patterns'[i].id
                \in Elements(MapGet(memIndex'.byRegime, lastState'[1].regime.type))]_vars

\* C31: resetDailyRisk never deactivates a kill switch that a drawdown breach
\* tripped: when the updateRiskState of a filterSignals call detected a
\* drawdown beyond maxDrawdown (with or without a daily-loss breach in the
\* same update) and resetDailyRisk is the next call, the switch is still
\* active afterwards.
C31_ResetKeepsDrawdownSwitch ==
  [][(/\ op = "filterSignals" /\ ~killBefore /\ peakEquity > 0
      /\ (peakEquity - argPortfolio.totalValue) * 1000 > limits.maxDrawdown * peakEquity
      /\ op' = "resetDailyRisk")
       => killSwitchActive']_vars

TemplateIds == {templates[i].id : i \in 1..Len(templates)}

\* C32: learning state is kept per strategy: every outcome the learning
\* engine holds is attributed to a strategy template, the learning-progress
\* and evolution maps are keyed by strategy templates, and so neither map
\* holds more entries than there are templates.
C32_LearningKeptPerStrategy ==
  /\ \A i \in 1..Len(tradeOutcomes) : tradeOutcomes[i].strategyId \in TemplateIds
  /\ \A i \in 1..Len(learningProgress) : learningProgress[i].strategyId \in TemplateIds
  /\ \A i \in 1..Len(strategyEvolutions) : strategyEvolutions[i].strategyId \in TemplateIds
  /\ Len(learningProgress) <= Cardinality(TemplateIds)
  /\ Len(strategyEvolutions) <= Cardinality(TemplateIds)

\* the entries of new that are older than time are the last entries of old,
\* and come before the entries made at time
KeepsMostRecent(old, new, time) ==
  LET kept == SelectSeq(new, LAMBDA e : e.timestamp < time)
  IN  /\ kept = lastN(old, Len(kept))
      /\ new = kept \o SelectSeq(new, LAMBDA e : e.timestamp = time)

C39_ImportanceNormalized ==
  /\ 2 * Abs(SumSeq([i \in 1..Len(ImportanceFeatures) |->
                       featureImportance[ImportanceFeatures[i]]]) - 10000)
       <= Len(ImportanceFeatures)
  /\ \A f \in FeatureNames : featureImportance[f] > 0

\* an analyzeOutcome call has moved the weights apart, one of them to the
\* floor of adjustFeatureImportance before the normalization
C39_Witness ==
  /\ op = "analyzeOutcome"
  /\ featureImportance["momentum"] # featureImportance["coherence"]
  /\ \E f \in FeatureNames : featureImportance[f] < 100

C40_OneLiveSocket ==
  [][/\ Cardinality(Live(sockets')) <= 1
     /\ (fired' # 0 /\ fired' # ws /\ isConnected(wsState) /\ heartbeatTimer)
          => heartbeatTimer']_vars

\* the ten values of RegimeType
RegimeTypes ==
  { "trending_bullish", "trending_bearish", "range_bound", "breakout", "breakdown",
    "consolidation", "high_volatility", "low_volatility", "gamma_squeeze",
    "mean_reversion" }

\* the rules of the classification in their stated order, each with whether
\* its condition holds for the features f and the net gamma g.  A comparison
\* with a NaN volatility or vol of vol does not hold
RegimeRules(f, g) ==
  << [holds |-> f.volatility # NaN /\ f.volatility > 4000, type |-> "high_volatility"],
     [holds |-> f.volatility # NaN /\ f.volatility < 1500, type |-> "low_volatility"],
     [holds |-> f.gammaMagnitude > 700 /\ (g > 1000000 \/ g < 0 - 1000000),
      type |-> "gamma_squeeze"],
     [holds |-> f.momentum > 200 /\ f.trendStrength > 600, type |-> "trending_bullish"],
     [holds |-> f.momentum < 0 - 200 /\ f.trendStrength > 600, type |-> "trending_bearish"],
     [holds |-> f.volOfVol # NaN /\ f.volOfVol > 30 /\ f.momentum > 100, type |-> "breakout"],
     [holds |-> f.volOfVol # NaN /\ f.volOfVol > 30 /\ f.momentum < 0 - 100,
      type |-> "breakdown"],
     [holds |-> f.momentum < 50 /\ f.momentum > 0 - 50
                  /\ f.volatility # NaN /\ f.volatility > 2000,
      type |-> "mean_reversion"],
     [holds |-> f.trendStrength < 300 /\ f.momentum < 100 /\ f.momentum > 0 - 100,
      type |-> "range_bound"],
     [holds |-> f.volatility # NaN /\ f.volatility < 2000 /\ f.trendStrength < 400,
      type |-> "consolidation"],
     [holds |-> TRUE, type |-> "range_bound"] >>

\* the rules that hold
Matching(rules) == {i \in 1..Len(rules) : rules[i].holds}

SameRegime(type) == SelectSeq(patterns, LAMBDA p : p.regime.type = type)

\* C35: what getSimilarPatterns(features, regime, limit) returned has at most
\* limit patterns, each of them in the store with the cosine similarity of its
\* fingerprint to the query, no pattern before one of greater similarity, and
\* only patterns of the regime asked for when the store holds at least limit
\* of them.
C35_SimilarPatterns ==
  op = "getSimilarPatterns" =>
    LET features == callArgs[1]
        regime == callArgs[2]
        limit == callArgs[3]
    IN  /\ Len(callResult) <= limit
        /\ \A i \in 1..Len(callResult) :
             /\ HasId(patterns, callResult[i].id)
             /\ callResult[i].similarity
                  = cosineSimilarity(normalize(features),
                                     GetById(fingerprints, callResult[i].id).features)
        /\ \A i, j \in 1..Len(callResult) :
             i < j => ~lt(callResult[i].similarity, callResult[j].similarity)
        /\ Len(SameRegime(regime.type)) >= limit =>
             \A i \in 1..Len(callResult) : callResult[i].regime.type = regime.type

\* the cells of a gamma surface that qualify as attractors
Qualifying(gammaSurface) ==
  { c \in (1..Len(gammaSurface.expiries)) \X (1..Len(gammaSurface.strikes)) :
      Abs(gammaSurface.values[c[1]][c[2]]) * 10
        > Abs(gammaSurface.maxGamma - gammaSurface.minGamma) }

\* C36: the pull calculateGravitationalPull returned has at most 10
\* attractors, every qualifying cell that is stronger than the weakest
\* attractor kept is among the attractors, the magnitude lies in [0, 1] and
\* the direction is -1, 0 or 1.
C36_StrongestAttractorsKept ==
  op = "calculateGravitationalPull" =>
    LET gammaSurface == callResult[1]
        pull == callResult[2]
        kept == pull.attractors
        strengthOf(c) == gammaSurface.values[c[1]][c[2]]
    IN  /\ Len(kept) <= 10
        /\ \A c \in Qualifying(gammaSurface) :
             (\E i \in 1..Len(kept) : strengthOf(c) > kept[i].strength) =>
               Cardinality({d \in Qualifying(gammaSurface) : strengthOf(d) = strengthOf(c)})
                 = Cardinality({i \in 1..Len(kept) : kept[i].strength = strengthOf(c)})
        /\ pull.magnitude >= 0 /\ pull.magnitude <= 1000
        /\ pull.direction \in {0 - 1, 0, 1}

\* the parameters adaptParameters multiplies
Adapted == {"stopLoss", "trailingStop", "targetProfit"}

\* C37 as stated: the stop, trailing-stop and target-profit parameters
\* adaptParameters returned are the template's values multiplied by 1.2 in
\* low, 1.0 in normal, 0.8 in elevated, 0.5 in high and 0.25 in extreme
\* volatility.
C37_MultipliersAsStated ==
  op = "adaptParameters" =>
    LET volatility == callArgs[2].characteristics.volatility
        percent == CASE volatility = "low" -> 120
                     [] volatility = "normal" -> 100
                     [] volatility = "elevated" -> 80
                     [] volatility = "high" -> 50
                     [] volatility = "extreme" -> 25
    IN  \A name \in Adapted :
          callResult[1][name] * 100 = callArgs[1].parameters[name] * percent

\* C37: the stop, trailing-stop and target-profit parameters adaptParameters
\* returned are the template's values multiplied by 1.5 in high and extreme,
\* 0.7 in low and 1.0 in normal and elevated volatility; every other
\* parameter is the template's.
C37_AdaptedParameters ==
  op = "adaptParameters" =>
    LET volatility == callArgs[2].characteristics.volatility
        tenths == CASE volatility \in {"high", "extreme"} -> 15
                    [] volatility = "low" -> 7
                    [] volatility \in {"normal", "elevated"} -> 10
    IN  /\ \A name \in Adapted :
             callResult[1][name] * 10 = callArgs[1].parameters[name] * tenths
        /\ \A name \in (DOMAIN callResult[1]) \ Adapted :
             callResult[1][name] = callArgs[1].parameters[name]
        /\ DOMAIN callResult[1] = DOMAIN callArgs[1].parameters

C37_Witness ==
  /\ op = "adaptParameters"
  /\ callArgs[2].characteristics.volatility = "high"
  /\ callArgs[1].parameters.stopLoss = 300
  /\ callArgs[1].parameters.trailingStop = 2000
  /\ callArgs[1].parameters.targetProfit = 500
  /\ callResult[1].stopLoss = 450
  /\ callResult[1].trailingStop = 3000
  /\ callResult[1].targetProfit = 750

====
